---------------------------- MODULE Spec2Model ----------------------------
(***************************************************************************)
(* Model of the v2.2 backtesting engine (src/backtester.py): the entry     *)
(* point with load_data, the cursor loop of run_backtest, its inlined      *)
(* Market-Structure-Shift detection, the Account sizer and the TradeLogger *)
(* ledger.                                                                 *)
(*                                                                         *)
(* Conventions.                                                            *)
(*  - Bars are indexed 0..N-1 as in the data frame (df.iloc[k]).           *)
(*  - Prices are integers in units of 0.0001 (so the 0.0001 minimum stop   *)
(*    distance is 1).  Timestamps are minutes; time-of-day is the          *)
(*    timestamp modulo one day.                                            *)
(*  - Money and position sizes are exact rationals <<num, den>> in lowest  *)
(*    terms with den > 0: the float arithmetic of the code without its     *)
(*    rounding error.                                                      *)
(*  - ema_fast / ema_slow are columns of the frame run_backtest receives;  *)
(*    they are inputs of the model.                                        *)
(***************************************************************************)
EXTENDS Integers, Sequences, FiniteSets

(* ------------------------------ bounds -------------------------------- *)
\* Bars after the warm-up offset.
TailLen == 6
\* Tail bars whose shape is chosen freely; the remaining tail bars repeat
\* one filler shape.
FreeLen == 3
\* Minutes between two consecutive bars.
BarMinutes == 60
\* Rows of the longer frames main of simulate_live_markets is run on, and
\* how many of them are free.
SimLen == 14
SimFree == 3
\* Trader processes the switch may start, updates it handles, and market
\* orders a trader sends.
MaxProcs == 2
MaxUpdates == 3
MaxOrders == 2

(* ------------------------- program constants -------------------------- *)
WarmUp == 200
Lookback == 5
InitialBalance == 10000
RiskPercent == 1
RewardMultiple == 2
MinStopDistance == 1
DayMinutes == 1440
london_open == 480
ny_close == 1320

\* The rows of a full data file.
FrameLen == WarmUp + TailLen
Runs == {1, 2}
NaN == -1

(* --------------------------- exact rationals -------------------------- *)
Abs(x) == IF x < 0 THEN -x ELSE x

\* The operations are written as functions applied to their arguments, so
\* that each argument is evaluated once, before the operation.
Pairs == Int \X Int

\* Euclid's algorithm.
GCD(a, b) ==
    LET Euclid[p \in Nat \X Nat] ==
            IF p[2] = 0 THEN p[1] ELSE Euclid[<<p[2], p[1] % p[2]>>]
    IN  Euclid[<<a, b>>]

Rat(n, d) ==
    LET Reduce[p \in Pairs] ==
            LET s == IF p[2] < 0 THEN -1 ELSE 1
                g == GCD(Abs(p[1]), Abs(p[2]))
            IN  <<(s * p[1]) \div g, (s * p[2]) \div g>>
    IN  Reduce[<<n, d>>]

RInt(n) == <<n, 1>>

RAdd(a, b) ==
    LET Sum[p \in Pairs \X Pairs] ==
            LET x == p[1]
                y == p[2]
                l == (x[2] \div GCD(x[2], y[2])) * y[2]
            IN  Rat(x[1] * (l \div x[2]) + y[1] * (l \div y[2]), l)
    IN  Sum[<<a, b>>]

RMul(a, b) ==
    LET Product[p \in Pairs \X Pairs] ==
            LET x == Rat(p[1][1], p[2][2])
                y == Rat(p[2][1], p[1][2])
            IN  Rat(x[1] * y[1], x[2] * y[2])
    IN  Product[<<a, b>>]

RDiv(a, b) == RMul(a, Rat(b[2], b[1]))

RPos(a) == a[1] > 0

(* ------------------------------ the frame ----------------------------- *)
\* Bar shapes the input frames are assembled from (high, low, close).
Shape(h, l, c) == [high |-> h, low |-> l, close |-> c]
Flat  == Shape(7, 6, 7)
Tight == Shape(7, 7, 7)
Up    == Shape(8, 7, 8)
Down  == Shape(6, 5, 5)
Spike == Shape(12, 7, 8)
Crash == Shape(6, 1, 5)
Wide  == Shape(12, 1, 7)
High  == Shape(12, 11, 12)
Low   == Shape(2, 1, 2)

FreeShapes == {Up, Down, Spike, Crash, Wide}

\* What surrounds the free bars: the shape of the warm-up bars up to bar
\* cross (pad) and after it (late), the shape of the bars after the free
\* ones (fill), the sign of ema_fast - ema_slow up to bar cross (a tie at
\* cross + 1, the opposite sign after it), and the timestamp of bar 0 in
\* minutes.
SceneShift(pad, late, fill, trend0, cross, t0) ==
    [pad |-> pad, late |-> late, fill |-> fill, trend0 |-> trend0,
     cross |-> cross, t0 |-> t0]
\* A scene whose warm-up bars all have one shape.
Scene(pad, fill, trend0, cross, t0) ==
    SceneShift(pad, pad, fill, trend0, cross, t0)
Scenes ==
    { Scene(Flat, Up, d, WarmUp - 2, 0) : d \in {-1, 1} } \cup
    { Scene(Flat, Down, d, WarmUp - 2, 840) : d \in {-1, 1} } \cup
    { Scene(Tight, Down, d, WarmUp - 1, 0) : d \in {-1, 1} } \cup
    { Scene(Flat, Up, d, WarmUp - 1, 1380) : d \in {-1, 1} }

\* The trend turns in the middle of the warm-up and the price has moved to
\* another level since: up after a downtrend, down after an uptrend.  The
\* first bar after the warm-up is the last one of its session.
HalfWay == WarmUp \div 2
ShiftScenes ==
    {SceneShift(Flat, High, Up, -1, HalfWay, 840),
     SceneShift(Flat, Low, Down, 1, HalfWay, 840)}
ShiftShapes == {Up, Down}

\* lead: by how many bar intervals the timestamp of bar 0 is late.  0 is a
\* strictly increasing series; 1 repeats the timestamp of bar 1 on bar 0;
\* 2 puts bar 0 after bar 1.
Inputs ==
    [scene : Scenes, free : [1..FreeLen -> FreeShapes], lead : {0}] \cup
    [scene : ShiftScenes, free : [1..FreeLen -> ShiftShapes], lead : {0}] \cup
    [scene : {Scene(Flat, Up, -1, WarmUp - 2, 0)},
     free : [1..FreeLen -> FreeShapes], lead : {1, 2}]

\* The loaded series with its indicator columns (the argument of
\* find_swing_points): FrameLen bars.
MakeBars(c) ==
    [k \in 0..(FrameLen - 1) |->
        LET s == IF k <= c.scene.cross /\ k < WarmUp THEN c.scene.pad
                 ELSE IF k < WarmUp THEN c.scene.late
                 ELSE IF k - WarmUp < FreeLen THEN c.free[k - WarmUp + 1]
                 ELSE c.scene.fill
            d == IF k <= c.scene.cross THEN c.scene.trend0
                 ELSE IF k = c.scene.cross + 1 THEN 0 ELSE -c.scene.trend0
            late == IF k = 0 THEN c.lead ELSE 0
        IN  [timestamp |-> c.scene.t0 + (k + late) * BarMinutes,
             high |-> s.high, low |-> s.low, close |-> s.close,
             ema_fast |-> 7 + d, ema_slow |-> 7]]

\* The data file handed to load_data: its extension, whether it exists,
\* whether the archive holds a .csv member, whether read_csv and to_datetime
\* succeed on it, which time column it has and how many rows it has: all
\* the rows of the frame ("some"), its first WarmUp rows ("warmup"), its
\* first Lookback rows ("few") or none.  Files whose column is already
\* named 'timestamp' are returned unparsed by load_data and are not among
\* the inputs.
File(ext, found, member, parses, column, rows) ==
    [ext |-> ext, found |-> found, member |-> member, parses |-> parses,
     column |-> column, rows |-> rows]
GoodFile == File("csv", TRUE, TRUE, TRUE, "time", "some")
Files ==
    {GoodFile,
     File("zip", TRUE, TRUE, TRUE, "time", "some"),
     File("csv", FALSE, TRUE, TRUE, "time", "some"),
     File("txt", TRUE, TRUE, TRUE, "time", "some"),
     File("zip", TRUE, FALSE, TRUE, "time", "some"),
     File("csv", TRUE, TRUE, FALSE, "time", "some"),
     File("csv", TRUE, TRUE, TRUE, "none", "some"),
     File("csv", TRUE, TRUE, TRUE, "time", "none"),
     File("csv", TRUE, TRUE, TRUE, "time", "warmup"),
     File("csv", TRUE, TRUE, TRUE, "time", "few")}

\* The one frame the files other than GoodFile hold.
PlainInput ==
    [scene |-> Scene(Flat, Up, -1, WarmUp - 2, 0),
     free |-> [k \in 1..FreeLen |-> Up], lead |-> 0]

\* The number of rows of the file.
RowCount(f) ==
    CASE f.rows = "some" -> FrameLen
      [] f.rows = "warmup" -> WarmUp
      [] f.rows = "few" -> Lookback
      [] f.rows = "none" -> 0

\* The rows of the file: none when there is nothing to read.
FileContent(f, c) ==
    IF f.found /\ f.member /\ f.rows # "none"
    THEN LET bars == MakeBars(c)
         IN  [k \in 0..(RowCount(f) - 1) |-> bars[k]]
    ELSE <<>>

\* Faulty variant: the time column is not looked for.
load_data_unchecked(f, content) ==
    IF f.ext \in {"zip", "csv"} /\ f.found /\ f.member /\ f.parses
    THEN [none |-> FALSE, frame |-> content]
    ELSE [none |-> TRUE, frame |-> <<>>]

\* load_data: None (none = TRUE) for an unsupported extension, a missing
\* file, an archive without a .csv member, any exception while reading or
\* converting, and a frame with neither a 'time' nor a 'timestamp' column;
\* otherwise the frame, which may have no rows.
load_data(f, content) ==
    LET None == [none |-> TRUE, frame |-> <<>>]
        columns == IF f.column = "time"
                   THEN [none |-> FALSE, frame |-> content]
                   ELSE IF f.column # "timestamp" THEN None
                   ELSE [none |-> FALSE, frame |-> content]
    IN  IF f.ext = "zip"
        THEN IF ~f.found THEN None
             ELSE IF ~f.member THEN None
             ELSE IF ~f.parses THEN None ELSE columns
        ELSE IF f.ext = "csv"
        THEN IF ~f.found THEN None
             ELSE IF ~f.parses THEN None ELSE columns
        ELSE None

\* Faulty variant: the swings are selected whatever the trend they formed
\* in.
MaskAnyTrend(kind, bars, k) ==
    CASE kind = "swing_highs" -> bars[k].swing_high = 1
      [] kind = "swing_lows" -> bars[k].swing_low = 1
      [] kind = "potential_lower_highs" -> bars[k].swing_high = 1
      [] kind = "potential_higher_lows" -> bars[k].swing_low = 1

\* Whether row k of the frame belongs to the selection of that name in
\* run_backtest: swing_highs and swing_lows (lines 52-53), and their rows
\* formed against the trend, potential_lower_highs (line 84) and
\* potential_higher_lows (line 99).
Mask(kind, bars, k) ==
    CASE kind = "swing_highs" -> bars[k].swing_high = 1
      [] kind = "swing_lows" -> bars[k].swing_low = 1
      [] kind = "potential_lower_highs" ->
            bars[k].swing_high = 1 /\ bars[k].ema_fast < bars[k].ema_slow
      [] kind = "potential_higher_lows" ->
            bars[k].swing_low = 1 /\ bars[k].ema_fast > bars[k].ema_slow

\* Faulty variant: iloc[0], the first row of the selection.
FirstBefore(kind, bars, c) ==
    LET ahead == 0..(c - 1)
    IN  IF \E k \in ahead : Mask(kind, bars, k)
        THEN CHOOSE k \in ahead :
                 /\ Mask(kind, bars, k)
                 /\ \A e \in 0..(k - 1) : ~Mask(kind, bars, e)
        ELSE -1

\* The frame index of rows.iloc[-1] for the rows of a selection with index
\* below c: the largest k < c in the selection, or -1 when there is none
\* (rows.empty).
LastBefore(kind, bars, c) ==
    LET back == 1..c
    IN  IF \E d \in back : Mask(kind, bars, c - d)
        THEN c - (CHOOSE d \in back :
                      /\ Mask(kind, bars, c - d)
                      /\ \A e \in 1..(d - 1) : ~Mask(kind, bars, c - e))
        ELSE -1

\* Faulty variant: the centre must exceed every other bar of its window, so
\* that a tie is not flagged.
find_swing_points_strict(bars, lookback) ==
    LET n == Cardinality(DOMAIN bars)
        full(k) == k - lookback >= 0 /\ k + lookback <= n - 1
        win(k) == (k - lookback)..(k + lookback)
        is_max(k) == \A m \in win(k) \ {k} : bars[m].high < bars[k].high
        is_min(k) == \A m \in win(k) \ {k} : bars[m].low > bars[k].low
    IN  [k \in DOMAIN bars |->
            [timestamp |-> bars[k].timestamp,
             high |-> bars[k].high, low |-> bars[k].low,
             close |-> bars[k].close,
             ema_fast |-> bars[k].ema_fast, ema_slow |-> bars[k].ema_slow,
             swing_high |->
                IF ~full(k) THEN NaN ELSE IF is_max(k) THEN 1 ELSE 0,
             swing_low |->
                IF ~full(k) THEN NaN ELSE IF is_min(k) THEN 1 ELSE 0]]

\* find_swing_points: centred rolling window of 2*lookback+1 bars; NaN where
\* the window is incomplete, else 1 when the centre attains the window
\* extreme and 0 otherwise.
find_swing_points(bars, lookback) ==
    LET n == Cardinality(DOMAIN bars)
        full(k) == k - lookback >= 0 /\ k + lookback <= n - 1
        win(k) == (k - lookback)..(k + lookback)
        \* x.iloc[lookback] == x.max() and x.iloc[lookback] == x.min()
        is_max(k) == \A m \in win(k) : bars[m].high <= bars[k].high
        is_min(k) == \A m \in win(k) : bars[m].low >= bars[k].low
    IN  [k \in DOMAIN bars |->
            [timestamp |-> bars[k].timestamp,
             high |-> bars[k].high, low |-> bars[k].low,
             close |-> bars[k].close,
             ema_fast |-> bars[k].ema_fast, ema_slow |-> bars[k].ema_slow,
             swing_high |->
                IF ~full(k) THEN NaN ELSE IF is_max(k) THEN 1 ELSE 0,
             swing_low |->
                IF ~full(k) THEN NaN ELSE IF is_min(k) THEN 1 ELSE 0]]

VARIABLES
    file,           \* the data file of the entry point
    log_file,       \* the trade log on disk: exists, rows
    report,         \* whether generate_report wrote a report
    stage,          \* the entry point: "start", "none" or "loaded",
                    \* "prepared", "finished"
    df,             \* the rows of the file, then the frame load_data
                    \* returned, then with swing columns
    pc,             \* per run: "start", "loop", "scan" or "done"
    i,              \* per run: the cursor
    j,              \* per run: the exit-scan index
    trade_is_open,  \* per run: the open-position flag
    balance,        \* per run: account.balance
    pos,            \* per run: the locals of the open position
    trades,         \* per run: logger.trades
    ledger_bars,    \* per run: the (entry, exit) bar indices of each record
    \* simulate_live_markets.main
    slice,          \* data, the frame of main: its rows and their opens
    main_pc,        \* "start", "candles", "synthetic", "save", "done" or
                    \* "raised"
    candle,         \* the loop index i of the loop main is in
    last_swing_high, \* <<>> for None, else <<price>>
    last_swing_low,
    logged,         \* logger.trades of main
    \* the live trader processes, the broker terminal and the switch
    flag_file,      \* whether stop_flag_v2_2.txt exists
    running_process, \* the switch's handle: 0 for None, else a process
    switch_pc,      \* "idle", or "stopping" between the flag write and
                    \* terminate() of stop
    updates,        \* the updates the switch has handled: user, command
    proc_state,     \* per process: "none", "running", "exited",
                    \* "terminated"
    bot_pc,         \* per process: where its main thread is
    stop_event,     \* per process: the threading.Event
    current_position, \* per process: the ticket run_bot saw, 0 for None
    last_known_position_ticket,
    terminal,       \* per process: the MT5 connection, "off", "on",
                    \* "shutdown"
    positions,      \* the open positions at the broker
    orders          \* the market orders sent: process, what it had seen

\* What the entry point reads and writes outside run_backtest.
io == <<file, log_file, report>>

\* The state of the backtester's entry point, of main of
\* simulate_live_markets, and of the live trading programs.
backtest == <<file, log_file, report, stage, df, pc, i, j, trade_is_open,
              balance, pos, trades, ledger_bars>>
sim == <<slice, main_pc, candle, last_swing_high, last_swing_low, logged>>
live == <<flag_file, running_process, switch_pc, updates, proc_state, bot_pc,
          stop_event, current_position, last_known_position_ticket,
          terminal, positions, orders>>

vars == <<backtest, sim, live>>

\* len(df)
N == Cardinality(DOMAIN df)

(* ----------------------------- run_backtest --------------------------- *)
TimeOfDay(ts) == ts % DayMinutes
\* Faulty variant: the session test forgets the closing time.
InSessionOpenOnly(k) == london_open <= TimeOfDay(df[k].timestamp)

\* Line 71: london_open <= current_time <= ny_close.
InSession(k) ==
    /\ london_open <= TimeOfDay(df[k].timestamp)
    /\ TimeOfDay(df[k].timestamp) <= ny_close

NoPos == [trade_type |-> "None", entry_price |-> 0, stop_loss |-> 0,
          take_profit |-> 0, position_size |-> RInt(0),
          setup_type |-> "None", trigger_level |-> <<>>,
          trigger_bar |-> -1, stop_bar |-> -1, entry_bar |-> -1]

\* Faulty variant: a tie of the two averages counts as Bullish.
TrendTieBullish(cur) ==
    IF cur.ema_fast >= cur.ema_slow THEN "Bullish" ELSE "Bearish"

\* Line 76.
Trend(cur) ==
    IF cur.ema_fast > cur.ema_slow THEN "Bullish" ELSE "Bearish"

\* The detection inlined in run_backtest (lines 76-110) at cursor c.
\* trigger_bar / stop_bar are the frame indices of the rows taken with
\* iloc[-1] (the swing broken and the swing used as stop).  In pos,
\* entry_bar is the frame index of current_candle (line 67), which stays on
\* the entry bar while the exit scan runs.
Detect(c) ==
    LET cur == df[c]
        trend == Trend(cur)
        none == [trade_triggered |-> FALSE, trade_type |-> "None",
                 entry_price |-> 0, stop_loss |-> 0, setup_type |-> "None",
                 trigger_level |-> <<>>, trigger_bar |-> -1, stop_bar |-> -1]
    IN  IF trend = "Bullish"
        THEN LET last_lower_high ==
                     LastBefore("potential_lower_highs", df, c)
                 recent_low == LastBefore("swing_lows", df, c)
             IN  IF last_lower_high < 0 THEN none
                 ELSE IF ~(cur.close > df[last_lower_high].high) THEN none
                 ELSE [trade_triggered |-> recent_low >= 0,
                       trade_type |-> "buy",
                       entry_price |-> cur.close,
                       stop_loss |->
                           IF recent_low >= 0 THEN df[recent_low].low ELSE 0,
                       setup_type |-> "MSS - Bullish",
                       trigger_level |->
                           <<"Break of LH at", df[last_lower_high].high>>,
                       trigger_bar |-> last_lower_high,
                       stop_bar |-> recent_low]
        ELSE LET last_higher_low ==
                     LastBefore("potential_higher_lows", df, c)
                 recent_high == LastBefore("swing_highs", df, c)
             IN  IF last_higher_low < 0 THEN none
                 ELSE IF ~(cur.close < df[last_higher_low].low) THEN none
                 ELSE [trade_triggered |-> recent_high >= 0,
                       trade_type |-> "sell",
                       entry_price |-> cur.close,
                       stop_loss |->
                           IF recent_high >= 0 THEN df[recent_high].high
                           ELSE 0,
                       setup_type |-> "MSS - Bearish",
                       trigger_level |->
                           <<"Break of HL at", df[last_higher_low].low>>,
                       trigger_bar |-> last_higher_low,
                       stop_bar |-> recent_high]

\* The live engine's detector (market_structure_engine_v2_2.py, lines
\* 19-66) on the same frame: None outside the session and when no shift is
\* confirmed, else the trade details.
get_market_structure_shift(bars, current_index) ==
    LET current_candle == bars[current_index]
        None == [none |-> TRUE, trade_type |-> "None", entry_price |-> 0,
                 stop_loss |-> 0, trigger_level |-> <<>>]
        current_time_utc == TimeOfDay(current_candle.timestamp)
        trend == IF current_candle.ema_fast > current_candle.ema_slow
                 THEN "Bullish" ELSE "Bearish"
    IN  IF ~(london_open <= current_time_utc /\ current_time_utc <= ny_close)
        THEN None
        ELSE IF trend = "Bullish"
        THEN LET last_lower_high ==
                     LastBefore("potential_lower_highs", bars, current_index)
                 recent_low == LastBefore("swing_lows", bars, current_index)
             IN  IF last_lower_high < 0 THEN None
                 ELSE IF ~(current_candle.close > bars[last_lower_high].high)
                 THEN None
                 ELSE IF recent_low < 0 THEN None
                 ELSE [none |-> FALSE, trade_type |-> "buy",
                       entry_price |-> current_candle.close,
                       stop_loss |-> bars[recent_low].low,
                       trigger_level |->
                           <<"Break of LH at", bars[last_lower_high].high>>]
        ELSE LET last_higher_low ==
                     LastBefore("potential_higher_lows", bars, current_index)
                 recent_high == LastBefore("swing_highs", bars, current_index)
             IN  IF last_higher_low < 0 THEN None
                 ELSE IF ~(current_candle.close < bars[last_higher_low].low)
                 THEN None
                 ELSE IF recent_high < 0 THEN None
                 ELSE [none |-> FALSE, trade_type |-> "sell",
                       entry_price |-> current_candle.close,
                       stop_loss |-> bars[recent_high].high,
                       trigger_level |->
                           <<"Break of HL at", bars[last_higher_low].low>>]

\* Faulty variant: the risk is taken on the initial balance.
get_position_size_stale(bal, risk_percent, entry_price, sl_price) ==
    LET sl_pips == Abs(entry_price - sl_price)
    IN  IF sl_pips = 0 THEN RInt(0)
        ELSE RDiv(RMul(RInt(InitialBalance), Rat(risk_percent, 100)),
                  RInt(sl_pips))

\* Account.get_position_size
get_position_size(bal, risk_percent, entry_price, sl_price) ==
    LET sl_pips == Abs(entry_price - sl_price)
    IN  IF sl_pips = 0 THEN RInt(0)
        ELSE RDiv(RMul(bal, Rat(risk_percent, 100)), RInt(sl_pips))

\* Faulty variant: the sum is computed and not stored.
update_balance_dropped(bal, pnl) == bal

\* Account.update_balance
update_balance(bal, pnl) == RAdd(bal, pnl)

sl_distance(s) == Abs(s.entry_price - s.stop_loss)

\* Faulty variant: the target of a sell is put on the side of a buy.
TakeProfitLongOnly(s) == s.entry_price + sl_distance(s) * RewardMultiple

\* Line 119.
TakeProfit(s) ==
    IF s.trade_type = "buy"
    THEN s.entry_price + sl_distance(s) * RewardMultiple
    ELSE s.entry_price - sl_distance(s) * RewardMultiple

\* Faulty variant: the target is tested before the stop.
ExitResultTargetFirst(p, bar) ==
    IF p.trade_type = "buy"
    THEN IF bar.high >= p.take_profit THEN "win"
         ELSE IF bar.low <= p.stop_loss THEN "loss" ELSE "None"
    ELSE IF bar.low <= p.take_profit THEN "win"
         ELSE IF bar.high >= p.stop_loss THEN "loss" ELSE "None"

\* The exit test of one future bar (lines 128-133): the stop is tested
\* first, the target only when the stop is not hit.
ExitResult(p, bar) ==
    IF p.trade_type = "buy"
    THEN IF bar.low <= p.stop_loss THEN "loss"
         ELSE IF bar.high >= p.take_profit THEN "win" ELSE "None"
    ELSE IF bar.high >= p.stop_loss THEN "loss"
         ELSE IF bar.low <= p.take_profit THEN "win" ELSE "None"

\* Faulty variant: the exit prices of the two outcomes are exchanged.
ExitPriceSwapped(p, result) ==
    IF result = "loss" THEN p.take_profit ELSE p.stop_loss

\* The exit price assigned with the result (lines 129-133).
ExitPrice(p, result) ==
    IF result = "loss" THEN p.stop_loss ELSE p.take_profit

\* Faulty variant: the P&L of a sell is computed as that of a buy.
PnlCurrencyLong(p, exit_price) ==
    RMul(RInt(exit_price - p.entry_price), p.position_size)

\* Line 137.
PnlCurrency(p, exit_price) ==
    IF p.trade_type = "buy"
    THEN RMul(RInt(exit_price - p.entry_price), p.position_size)
    ELSE RMul(RInt(p.entry_price - exit_price), p.position_size)

\* Faulty variant: the record is inserted at the front of the list.
log_trade_front(log, entry_time, exit_time, trade_type, entry_price, exit_price, sl, tp, position_size, pnl_currency, account_balance, result, setup_type, trigger_level) ==
    <<[entry_time |-> entry_time, exit_time |-> exit_time,
       trade_type |-> trade_type, entry_price |-> entry_price,
       exit_price |-> exit_price, stop_loss |-> sl,
       take_profit |-> tp, position_size |-> position_size,
       pnl_currency |-> pnl_currency,
       account_balance |-> account_balance, result |-> result,
       setup_type |-> setup_type, trigger_level |-> trigger_level]>> \o log

\* TradeLogger.log_trade
log_trade(log, entry_time, exit_time, trade_type, entry_price, exit_price, sl, tp, position_size, pnl_currency, account_balance, result, setup_type, trigger_level) ==
    Append(log, [entry_time |-> entry_time, exit_time |-> exit_time,
                 trade_type |-> trade_type, entry_price |-> entry_price,
                 exit_price |-> exit_price, stop_loss |-> sl,
                 take_profit |-> tp, position_size |-> position_size,
                 pnl_currency |-> pnl_currency,
                 account_balance |-> account_balance, result |-> result,
                 setup_type |-> setup_type, trigger_level |-> trigger_level])

\* Account(initial_balance=10000), line 48.
AccountInit == RInt(InitialBalance)

\* The trade log and the report do not exist before the run.
NoLog == [exists |-> FALSE, rows |-> <<>>]

\* The processes the switch may start, and no process.
Procs == 1..MaxProcs
NoProcess == 0
NoPosition == 0

\* main of simulate_live_markets before it is called.
SimIdle ==
    /\ slice = [bars |-> <<>>, open |-> <<>>]
    /\ main_pc = "start"
    /\ candle = 0
    /\ last_swing_high = <<>>
    /\ last_swing_low = <<>>
    /\ logged = <<>>

\* The live programs before any of them is started.
LiveIdle ==
    /\ flag_file = FALSE
    /\ running_process = NoProcess
    /\ switch_pc = "idle"
    /\ updates = <<>>
    /\ proc_state = [p \in Procs |-> "none"]
    /\ bot_pc = [p \in Procs |-> "init"]
    /\ stop_event = [p \in Procs |-> FALSE]
    /\ current_position = [p \in Procs |-> NoPosition]
    /\ last_known_position_ticket = [p \in Procs |-> 0]
    /\ terminal = [p \in Procs |-> "off"]
    /\ positions = {}
    /\ orders = <<>>

\* The entry point before its first statement, on a file of Files whose
\* rows, for GoodFile, are any frame of the given inputs.
InitOn(inputs) ==
    /\ stage = "start"
    /\ \E f \in Files : \E c \in inputs :
           /\ f = GoodFile \/ c = PlainInput
           /\ file = f
           /\ df = FileContent(f, c)
    /\ log_file = NoLog
    /\ report = FALSE
    /\ pc = [r \in Runs |-> "start"]
    /\ i = [r \in Runs |-> 0]
    /\ j = [r \in Runs |-> 0]
    /\ trade_is_open = [r \in Runs |-> FALSE]
    /\ balance = [r \in Runs |-> RInt(0)]
    /\ pos = [r \in Runs |-> NoPos]
    /\ trades = [r \in Runs |-> <<>>]
    /\ ledger_bars = [r \in Runs |-> <<>>]
    /\ SimIdle
    /\ LiveIdle

Init == InitOn(Inputs)

\* Line 168: data = load_data(DATA_FILE).
LoadData ==
    /\ stage = "start"
    /\ LET data == load_data(file, df)
       IN  /\ stage' = IF data.none THEN "none" ELSE "loaded"
           /\ df' = data.frame
    /\ UNCHANGED <<sim, live>>
    /\ UNCHANGED <<io, pc, i, j, trade_is_open, balance, pos, trades,
                   ledger_bars>>

\* data.empty
Empty(frame) == DOMAIN frame = {}

\* Line 169: data is not None and not data.empty
Usable == stage = "loaded" /\ ~Empty(df)

\* Lines 178-181: no simulation; nothing is run, saved or reported.
Refuse ==
    /\ stage \in {"none", "loaded"}
    /\ ~Usable
    /\ stage' = "finished"
    /\ UNCHANGED <<sim, live>>
    /\ UNCHANGED <<io, df, pc, i, j, trade_is_open, balance, pos, trades,
                   ledger_bars>>

\* The entry point adds the swing columns before it calls run_backtest
\* (lines 171-172).
Prepare ==
    /\ Usable
    /\ df' = find_swing_points(df, Lookback)
    /\ stage' = "prepared"
    /\ UNCHANGED <<sim, live>>
    /\ UNCHANGED <<io, pc, i, j, trade_is_open, balance, pos, trades,
                   ledger_bars>>

\* Faulty variant: one account shared by the runs (module-level state).
CarriedBalance(r) == IF r = 1 THEN AccountInit ELSE balance[r - 1]

\* The balance the account of run r is created with.
FreshBalance(r) == AccountInit

\* Faulty variant: the cursor starts one bar early.
StartCursorEarly == WarmUp - 1

\* Line 59: i = 200.
StartCursor == WarmUp

\* Lines 48-59: run_backtest creates its account, clears the flag and puts
\* the cursor on the warm-up offset.
Start(r) ==
    /\ pc[r] = "start"
    /\ balance' = [balance EXCEPT ![r] = FreshBalance(r)]
    /\ trade_is_open' = [trade_is_open EXCEPT ![r] = FALSE]
    /\ i' = [i EXCEPT ![r] = StartCursor]
    /\ pc' = [pc EXCEPT ![r] = "loop"]
    /\ UNCHANGED <<sim, live>>
    /\ UNCHANGED <<io, stage, df, j, pos, trades, ledger_bars>>

AtBar(r) == pc[r] = "loop" /\ i[r] < N

\* Faulty variant: the cursor is left where it is.
AdvanceStuck(c) == c

\* Faulty variant: the cursor steps backwards.
AdvanceBack(c) == c - 1

\* i += 1 (lines 63, 72, 115, 149 and 152).
Advance(c) == c + 1

\* Lines 62-65 and 71-74: an open flag or an out-of-session bar only
\* advances the cursor.
Skip(r) ==
    /\ AtBar(r)
    /\ trade_is_open[r] \/ ~InSession(i[r])
    /\ i' = [i EXCEPT ![r] = Advance(@)]
    /\ UNCHANGED <<sim, live>>
    /\ UNCHANGED <<io, stage, df, pc, j, trade_is_open, balance, pos, trades,
                   ledger_bars>>

Evaluated(r) == AtBar(r) /\ ~trade_is_open[r] /\ InSession(i[r])

\* Lines 151-153: no setup triggered.
NoSetup(r) ==
    /\ Evaluated(r)
    /\ ~Detect(i[r]).trade_triggered
    /\ i' = [i EXCEPT ![r] = Advance(@)]
    /\ UNCHANGED <<sim, live>>
    /\ UNCHANGED <<io, stage, df, pc, j, trade_is_open, balance, pos, trades,
                   ledger_bars>>

\* Faulty variant: a stop exactly 0.0001 away is accepted.
TooCloseStrict(d) == d < MinStopDistance

\* Line 114: sl_distance <= 0.0001.
TooClose(d) == d <= MinStopDistance

SizeFor(r, s) ==
    get_position_size(balance[r], RiskPercent, s.entry_price, s.stop_loss)

\* Lines 113-117 and 148-150: the setup is discarded.
Discard(r) ==
    /\ Evaluated(r)
    /\ \E s \in {Detect(i[r])} :
           /\ s.trade_triggered
           /\ \/ TooClose(sl_distance(s))
              \/ ~RPos(SizeFor(r, s))
    /\ i' = [i EXCEPT ![r] = Advance(@)]
    /\ UNCHANGED <<sim, live>>
    /\ UNCHANGED <<io, stage, df, pc, j, trade_is_open, balance, pos, trades,
                   ledger_bars>>

\* Faulty variant: the exit scan starts on the entry bar.
ScanFromEntry(c) == c

\* Faulty variant: the exit scan skips the bar after the entry bar.
ScanSkipsOne(c) == c + 2

\* The first bar of the exit scan of a position entered at bar c (line 126).
ScanStart(c) == c + 1

\* Lines 119-126: the position is opened and the exit scan starts at i + 1.
OpenTrade(r) ==
    /\ Evaluated(r)
    /\ \E s \in {Detect(i[r])} :
           /\ s.trade_triggered
           /\ ~TooClose(sl_distance(s))
           /\ RPos(SizeFor(r, s))
           /\ pos' = [pos EXCEPT ![r] =
                        [trade_type |-> s.trade_type,
                         entry_price |-> s.entry_price,
                         stop_loss |-> s.stop_loss,
                         take_profit |-> TakeProfit(s),
                         position_size |-> SizeFor(r, s),
                         setup_type |-> s.setup_type,
                         trigger_level |-> s.trigger_level,
                         trigger_bar |-> s.trigger_bar,
                         stop_bar |-> s.stop_bar,
                         entry_bar |-> i[r]]]
    /\ trade_is_open' = [trade_is_open EXCEPT ![r] = TRUE]
    /\ pc' = [pc EXCEPT ![r] = "scan"]
    /\ j' = [j EXCEPT ![r] = ScanStart(i[r])]
    /\ UNCHANGED <<sim, live>>
    /\ UNCHANGED <<io, stage, df, i, balance, trades,
                   ledger_bars>>

Scanning(r) == pc[r] = "scan" /\ j[r] < N

\* Lines 126-135: bar j touches neither stop nor target.
ScanHold(r) ==
    /\ Scanning(r)
    /\ ExitResult(pos[r], df[j[r]]) = "None"
    /\ j' = [j EXCEPT ![r] = @ + 1]
    /\ UNCHANGED <<sim, live>>
    /\ UNCHANGED <<io, stage, df, pc, i, trade_is_open, balance, pos, trades,
                   ledger_bars>>

\* Faulty variant: the cursor resumes one bar before the exit bar.
ResumeBefore(jj) == jj - 1

\* The cursor after a trade closed on bar jj (line 141).
ResumeAt(jj) == jj

\* Faulty variant: the open flag is not cleared when the trade closes.
FlagAfterExitKept(flag) == flag

\* The open flag after a trade closed (line 142).
FlagAfterExit(flag) == FALSE

\* Lines 135-143: the trade closes on bar j.
CloseTrade(r) ==
    /\ Scanning(r)
    /\ LET p == pos[r]
           result == ExitResult(p, df[j[r]])
           exit_price == ExitPrice(p, result)
           pnl_currency == PnlCurrency(p, exit_price)
           newbal == update_balance(balance[r], pnl_currency)
       IN  /\ result # "None"
           /\ balance' = [balance EXCEPT ![r] = newbal]
           /\ trades' = [trades EXCEPT ![r] =
                  log_trade(@, df[i[r]].timestamp, df[j[r]].timestamp,
                            p.trade_type, p.entry_price, exit_price,
                            p.stop_loss, p.take_profit, p.position_size,
                            pnl_currency, newbal, result, p.setup_type,
                            p.trigger_level)]
    /\ i' = [i EXCEPT ![r] = ResumeAt(j[r])]
    /\ trade_is_open' = [trade_is_open EXCEPT ![r] = FlagAfterExit(@)]
    /\ pc' = [pc EXCEPT ![r] = "loop"]
    /\ ledger_bars' = [ledger_bars EXCEPT ![r] =
                          Append(@, [entry |-> i[r], exit |-> j[r]])]
    /\ UNCHANGED <<sim, live>>
    /\ UNCHANGED <<io, stage, df, j, pos>>

\* Faulty variant: an unresolved position advances the cursor by one bar.
AfterUnresolvedNext(c) == c + 1

\* The cursor after an exit scan from bar c that found no exit (line 147).
AfterUnresolved(c) == N

\* Lines 145-147: no bar closed the trade; the cursor jumps to the end.
EndOpen(r) ==
    /\ pc[r] = "scan" /\ j[r] >= N
    /\ i' = [i EXCEPT ![r] = AfterUnresolved(@)]
    /\ pc' = [pc EXCEPT ![r] = "loop"]
    /\ UNCHANGED <<sim, live>>
    /\ UNCHANGED <<io, stage, df, j, trade_is_open, balance, pos, trades,
                   ledger_bars>>

\* Line 61 false: the loop ends (line 155).
Finish(r) ==
    /\ pc[r] = "loop" /\ i[r] >= N
    /\ pc' = [pc EXCEPT ![r] = "done"]
    /\ UNCHANGED <<sim, live>>
    /\ UNCHANGED <<io, stage, df, i, j, trade_is_open, balance, pos, trades,
                   ledger_bars>>

\* run_backtest is called once per logger, one call after the other.
Turn(r) == stage = "prepared" /\ \A q \in Runs : q < r => pc[q] = "done"

\* run_backtest has no return statement (line 155).
run_backtest_result(r) == "None"

\* TradeLogger.save_log: nothing is written when there are no trades.
save_log(disk, log) ==
    IF log = <<>> THEN disk ELSE [exists |-> TRUE, rows |-> log]

\* generate_report returns without a report when the log file is missing
\* or has no rows.
generate_report(disk) == disk.exists /\ disk.rows # <<>>

\* Lines 176-177: the log of the first logger is saved and reported.
Report ==
    /\ stage = "prepared"
    /\ \A r \in Runs : pc[r] = "done"
    /\ log_file' = save_log(log_file, trades[1])
    /\ report' = generate_report(log_file')
    /\ stage' = "finished"
    /\ UNCHANGED <<sim, live>>
    /\ UNCHANGED <<file, df, pc, i, j, trade_is_open, balance, pos, trades,
                   ledger_bars>>

Next ==
    \/ LoadData
    \/ Refuse
    \/ Prepare
    \/ Report
    \/ \E r \in Runs : Turn(r) /\ Start(r)
    \/ \E r \in Runs : Turn(r) /\ Skip(r)
    \/ \E r \in Runs : Turn(r) /\ NoSetup(r)
    \/ \E r \in Runs : Turn(r) /\ Discard(r)
    \/ \E r \in Runs : Turn(r) /\ OpenTrade(r)
    \/ \E r \in Runs : Turn(r) /\ ScanHold(r)
    \/ \E r \in Runs : Turn(r) /\ CloseTrade(r)
    \/ \E r \in Runs : Turn(r) /\ EndOpen(r)
    \/ \E r \in Runs : Turn(r) /\ Finish(r)

Spec == Init /\ [][Next]_vars

\* A step of the call of run_backtest for run r.
RunStep(r) ==
    /\ Turn(r)
    /\ \/ Start(r) \/ Skip(r) \/ NoSetup(r) \/ Discard(r) \/ OpenTrade(r)
       \/ ScanHold(r) \/ CloseTrade(r) \/ EndOpen(r) \/ Finish(r)

\* The frames of the termination check: every scene, with the free bars
\* drawn from three of the shapes.
LiveShapes == {Up, Down, Spike}
LiveInputs == {c \in Inputs : \A k \in 1..FreeLen : c.free[k] \in LiveShapes}

\* run_backtest is sequential code that keeps executing until it returns:
\* while a call has a step to take, it eventually takes it.
LiveSpec ==
    /\ InitOn(LiveInputs)
    /\ [][Next]_vars
    /\ \A r \in Runs : WF_vars(RunStep(r))

\* Two threads that each call run_backtest on the prepared frame with a
\* logger of their own: a step of either call may come next.
Called == stage = "prepared"

NextConcurrent ==
    \/ LoadData
    \/ Refuse
    \/ Prepare
    \/ Report
    \/ \E r \in Runs : Called /\ Start(r)
    \/ \E r \in Runs : Called /\ Skip(r)
    \/ \E r \in Runs : Called /\ NoSetup(r)
    \/ \E r \in Runs : Called /\ Discard(r)
    \/ \E r \in Runs : Called /\ OpenTrade(r)
    \/ \E r \in Runs : Called /\ ScanHold(r)
    \/ \E r \in Runs : Called /\ CloseTrade(r)
    \/ \E r \in Runs : Called /\ EndOpen(r)
    \/ \E r \in Runs : Called /\ Finish(r)

ConcurrentSpec == InitOn(LiveInputs) /\ [][NextConcurrent]_vars

(* ---------------------- simulate_live_markets.main -------------------- *)
\* Prices are in units of 0.0001.  One unit on a position of size 1.0 is
\* 0.0001 * 100000 in currency (lines 114 and 135).
UnitValue == 10
\* 0.0015 (line 71), 0.0020 (line 132) and 0.0040 (line 133).
FallbackStop == 15
SyntheticStop == 20
SyntheticTarget == 40
\* Line 93: the exit is looked for below row i + 300.
ScanAhead == 300
\* Line 53.
FirstHour == 8
LastHour == 22
\* Line 89.
MinScore == 60

\* The frames main is run on: rows of them, the sign of ema_fast - ema_slow
\* on every row, the time of row 0 in minutes and the shapes of the last
\* rows.  The rows before the free ones are flat, but for a higher bar at
\* row Lookback and a lower one after it, which become a swing-high and a
\* swing-low once their windows are complete.
SimShapes == {High, Low, Up, Down}
SimInputs ==
    [rows : (0..SimFree) \cup {SimLen}, trend : {-1, 1}, t0 : {0, 480},
     free : [1..SimFree -> SimShapes]] \cup
    [rows : {WarmUp + 1}, trend : {1}, t0 : {480},
     free : [1..SimFree -> {Up}]]

\* select_random_month_slice (lines 9-26): the rows sorted by time under
\* the column "time", with the averages add_indicators (line 40) gives
\* them.  open[k] is the close of the row before.
MakeSlice(c) ==
    LET fixed == IF c.rows > SimFree THEN c.rows - SimFree ELSE 0
        shape(k) == IF k >= fixed THEN c.free[k - fixed + 1]
                    ELSE IF k = Lookback THEN Up
                    ELSE IF k = Lookback + 1 THEN Down
                    ELSE Flat
        row(k) == [timestamp |-> c.t0 + k * BarMinutes,
                   high |-> shape(k).high, low |-> shape(k).low,
                   close |-> shape(k).close,
                   ema_fast |-> shape(k).close + c.trend,
                   ema_slow |-> shape(k).close]
    IN  [bars |-> [k \in 0..(c.rows - 1) |-> row(k)],
         open |-> [k \in 0..(c.rows - 1) |->
                      IF k = 0 THEN shape(0).close ELSE shape(k - 1).close]]

SimN == Cardinality(DOMAIN slice.bars)

\* The entry point of the backtester while another program is looked at:
\* it is not run.
BacktestIdle ==
    /\ stage = "start"
    /\ file = GoodFile
    /\ df = <<>>
    /\ log_file = NoLog
    /\ report = FALSE
    /\ pc = [r \in Runs |-> "start"]
    /\ i = [r \in Runs |-> 0]
    /\ j = [r \in Runs |-> 0]
    /\ trade_is_open = [r \in Runs |-> FALSE]
    /\ balance = [r \in Runs |-> RInt(0)]
    /\ pos = [r \in Runs |-> NoPos]
    /\ trades = [r \in Runs |-> <<>>]
    /\ ledger_bars = [r \in Runs |-> <<>>]

\* main is called on a frame of SimInputs; nothing else runs.
SimInit ==
    /\ BacktestIdle
    /\ LiveIdle
    /\ \E c \in SimInputs : slice = MakeSlice(c)
    /\ main_pc = "start"
    /\ candle = 0
    /\ last_swing_high = <<>>
    /\ last_swing_low = <<>>
    /\ logged = <<>>

\* bt.run_backtest(data, logger) on the frame of main, whose time column is
\* "time": with 200 rows or fewer the loop of run_backtest has no bar to
\* visit and the call returns with an empty ledger; with more rows line 68
\* of the backtester reads current_candle['timestamp'], which the frame
\* does not have, and the call raises.
run_backtest_raises == SimN > WarmUp

\* Lines 40-48.
CallBacktest ==
    /\ main_pc = "start"
    /\ slice' = [slice EXCEPT !.bars = find_swing_points(@, Lookback)]
    /\ main_pc' = IF run_backtest_raises THEN "raised" ELSE "candles"
    /\ UNCHANGED <<candle, last_swing_high, last_swing_low, logged>>

\* Line 52: pd.to_datetime(ts).hour.
Hour(ts) == (ts % DayMinutes) \div BarMinutes
InHours(ts) == FirstHour <= Hour(ts) /\ Hour(ts) <= LastHour

\* Lines 59-62: the swing levels after row k has been read.
SwingHighAt(k) ==
    IF slice.bars[k].swing_high = 1 THEN <<slice.bars[k].high>>
    ELSE last_swing_high
SwingLowAt(k) ==
    IF slice.bars[k].swing_low = 1 THEN <<slice.bars[k].low>>
    ELSE last_swing_low

\* Lines 55-89 at row k: the trade main would take, or none.
CandleSetup(k) ==
    LET row == slice.bars[k]
        trend == IF row.ema_fast > row.ema_slow THEN "Bullish" ELSE "Bearish"
        sh == SwingHighAt(k)
        sw == SwingLowAt(k)
        entry_price == row.close
        take_buy == sh # <<>> /\ entry_price > sh[1] /\ trend = "Bullish"
        take_sell == sw # <<>> /\ entry_price < sw[1] /\ trend = "Bearish"
        trade_type == IF take_buy THEN "buy" ELSE "sell"
        level == IF trade_type = "buy" THEN sw ELSE sh
        sl == IF level # <<>> THEN level[1]
              ELSE IF trade_type = "buy" THEN entry_price - FallbackStop
              ELSE entry_price + FallbackStop
        sl_dist == Abs(entry_price - sl)
        tp == IF trade_type = "buy" THEN entry_price + 2 * sl_dist
              ELSE entry_price - 2 * sl_dist
        tp_dist == Abs(tp - entry_price)
        \* rr_ratio = tp_dist / sl_dist, 0 when sl_dist is 0
        below(tenths) == IF sl_dist > 0 THEN 10 * tp_dist < tenths * sl_dist
                         ELSE TRUE
        score == 100
                 - (IF below(18) THEN 20 ELSE IF below(20) THEN 10 ELSE 0)
                 - (IF \/ trend = "Bullish" /\ trade_type # "buy"
                       \/ trend = "Bearish" /\ trade_type # "sell"
                    THEN 40 ELSE 0)
                 - (IF sl_dist < 3 THEN 15 ELSE IF sl_dist > 20 THEN 25
                    ELSE 0)
    IN  [taken |-> (take_buy \/ take_sell) /\ score >= MinScore,
         trade_type |-> trade_type, entry_price |-> entry_price,
         sl |-> sl, tp |-> tp]

\* Lines 91-111: the first row after k, below k + 300, on which the target
\* or else the stop is reached, with the exit price; row k and the entry
\* price when there is none.
CandleExit(k, t) ==
    LET ahead == (k + 1)..((IF k + ScanAhead < SimN THEN k + ScanAhead
                            ELSE SimN) - 1)
        hit(m) == IF t.trade_type = "buy"
                  THEN slice.bars[m].high >= t.tp \/ slice.bars[m].low <= t.sl
                  ELSE slice.bars[m].low <= t.tp \/ slice.bars[m].high >= t.sl
        target(m) == IF t.trade_type = "buy" THEN slice.bars[m].high >= t.tp
                     ELSE slice.bars[m].low <= t.tp
    IN  IF \E m \in ahead : hit(m)
        THEN LET m == CHOOSE m \in ahead :
                          hit(m) /\ \A e \in ahead : e < m => ~hit(e)
             IN  [bar |-> m, price |-> IF target(m) THEN t.tp ELSE t.sl]
        ELSE [bar |-> k, price |-> t.entry_price]

\* Lines 113-119 and 134-140: the record of a trade of size 1.0.  The
\* balance of the record is 10000 plus the P&L of this trade.
SimRecord(enter, exit, trade_type, entry_price, exit_price, sl, tp, label) ==
    LET pnl_currency == IF trade_type = "buy"
                        THEN (exit_price - entry_price) * UnitValue
                        ELSE (entry_price - exit_price) * UnitValue
    IN  [entry_time |-> slice.bars[enter].timestamp,
         exit_time |-> slice.bars[exit].timestamp,
         trade_type |-> trade_type, entry_price |-> entry_price,
         exit_price |-> exit_price, stop_loss |-> sl, take_profit |-> tp,
         position_size |-> 1, pnl_currency |-> pnl_currency,
         account_balance |-> InitialBalance + pnl_currency,
         result |-> IF pnl_currency > 0 THEN "win" ELSE "loss",
         setup_type |-> label, trigger_level |-> entry_price]

\* One pass of the loop of lines 49-119 that logs nothing: the row is
\* outside the hours (line 53), or no trade is taken on it (lines 66 and
\* 89).
CandleSkip ==
    /\ main_pc = "candles"
    /\ candle < SimN
    /\ IF ~InHours(slice.bars[candle].timestamp)
       THEN UNCHANGED <<last_swing_high, last_swing_low>>
       ELSE /\ ~CandleSetup(candle).taken
            /\ last_swing_high' = SwingHighAt(candle)
            /\ last_swing_low' = SwingLowAt(candle)
    /\ candle' = candle + 1
    /\ UNCHANGED <<slice, main_pc, logged>>

\* One pass of the loop of lines 49-119 that logs a trade.
CandleTrade ==
    /\ main_pc = "candles"
    /\ candle < SimN
    /\ InHours(slice.bars[candle].timestamp)
    /\ CandleSetup(candle).taken
    /\ LET t == CandleSetup(candle)
           x == CandleExit(candle, t)
       IN  logged' = Append(logged,
                            SimRecord(candle, x.bar, t.trade_type,
                                      t.entry_price, x.price, t.sl, t.tp,
                                      "crew_ai_mss"))
    /\ last_swing_high' = SwingHighAt(candle)
    /\ last_swing_low' = SwingLowAt(candle)
    /\ candle' = candle + 1
    /\ UNCHANGED <<slice, main_pc>>

\* Line 124.
SyntheticStep == IF SimN \div 5 > 1 THEN SimN \div 5 ELSE 1

\* The loop of lines 49-119 is over; lines 121-123 choose what follows.
CandlesDone ==
    /\ main_pc = "candles"
    /\ candle = SimN
    /\ main_pc' = IF logged = <<>> /\ SimN >= 2 THEN "synthetic" ELSE "save"
    /\ candle' = 0
    /\ UNCHANGED <<slice, last_swing_high, last_swing_low, logged>>

\* One pass of the loop of lines 125-140: a trade from the open of row i
\* to the close of row j.
Synthetic ==
    /\ main_pc = "synthetic"
    /\ candle < SimN - 1
    /\ LET row_j == IF candle + SyntheticStep < SimN - 1
                    THEN candle + SyntheticStep ELSE SimN - 1
           entry_price == slice.open[candle]
           exit_price == slice.bars[row_j].close
           trade_type == IF exit_price >= entry_price THEN "buy" ELSE "sell"
           sl == IF trade_type = "buy" THEN entry_price - SyntheticStop
                 ELSE entry_price + SyntheticStop
           tp == IF trade_type = "buy" THEN entry_price + SyntheticTarget
                 ELSE entry_price - SyntheticTarget
       IN  logged' = Append(logged,
                            SimRecord(candle, row_j, trade_type, entry_price,
                                      exit_price, sl, tp, "synthetic"))
    /\ candle' = candle + SyntheticStep
    /\ UNCHANGED <<slice, main_pc, last_swing_high, last_swing_low>>

SyntheticDone ==
    /\ main_pc = "synthetic"
    /\ candle >= SimN - 1
    /\ main_pc' = "save"
    /\ UNCHANGED <<slice, candle, last_swing_high, last_swing_low, logged>>

\* Lines 142-143: logger.save_log() writes the ledger when it has a
\* record, and the report is made.
SaveLedger ==
    /\ main_pc = "save"
    /\ main_pc' = "done"
    /\ UNCHANGED <<slice, candle, last_swing_high, last_swing_low, logged>>

SimNext ==
    \/ CallBacktest /\ UNCHANGED <<backtest, live>>
    \/ CandleSkip /\ UNCHANGED <<backtest, live>>
    \/ CandleTrade /\ UNCHANGED <<backtest, live>>
    \/ CandlesDone /\ UNCHANGED <<backtest, live>>
    \/ Synthetic /\ UNCHANGED <<backtest, live>>
    \/ SyntheticDone /\ UNCHANGED <<backtest, live>>
    \/ SaveLedger /\ UNCHANGED <<backtest, live>>

SimSpec == SimInit /\ [][SimNext]_vars

(* ------------------ the live trader and its switch -------------------- *)
\* telegram_start_stop_switch_v2_2.py, line 13.  User ids are compared for
\* equality only and are kept as numerals.
AUTHORIZED_USER_ID == "7207365764"
Users == {AUTHORIZED_USER_ID, "1"}
\* config_v2_2.py, line 14.
MAGIC_NUMBER == 222222

\* Faulty variant: every user passes.
is_authorized_anyone(user_id) == TRUE

\* Lines 26-35 of the switch.
is_authorized(user_id) == user_id = AUTHORIZED_USER_ID

\* A position at the broker: its ticket, its magic number and the trader
\* process whose order opened it (NoProcess for a position that was there
\* before).  Foreign was opened by hand, Earlier by a trader of an earlier
\* session.
Position(ticket, magic, opener) ==
    [ticket |-> ticket, magic |-> magic, opener |-> opener]
Foreign == Position(MaxOrders + 1, 0, NoProcess)
Earlier == Position(MaxOrders + 2, MAGIC_NUMBER, NoProcess)

\* mt5_trade_functions.get_open_position (lines 17-24) for the symbol of
\* the bot: a position with the magic number, or None.
BotPositions == {q \in positions : q.magic = MAGIC_NUMBER}
get_open_position ==
    IF BotPositions = {} THEN NoPosition
    ELSE (CHOOSE q \in BotPositions :
              \A o \in BotPositions : q.ticket <= o.ticket).ticket

Running(p) == proc_state[p] = "running"

\* Lines 29-44 of run_bot: mt5.initialize fails (line 33), mt5.login fails
\* and the connection is shut down (lines 38-39), or the bot is logged in.
Initialize(p) ==
    /\ Running(p)
    /\ bot_pc[p] = "init"
    /\ \E outcome \in {"initialize_failed", "login_failed", "logged_in"} :
           /\ terminal' = [terminal EXCEPT ![p] =
                  CASE outcome = "initialize_failed" -> "off"
                    [] outcome = "login_failed" -> "shutdown"
                    [] outcome = "logged_in" -> "on"]
           /\ bot_pc' = [bot_pc EXCEPT ![p] =
                  IF outcome = "logged_in" THEN "loop" ELSE "shutdown"]
    /\ last_known_position_ticket' =
           [last_known_position_ticket EXCEPT ![p] = 0]
    /\ UNCHANGED <<flag_file, running_process, switch_pc, updates,
                   proc_state, stop_event, current_position, positions,
                   orders>>
    /\ UNCHANGED <<backtest, sim>>

\* Faulty variant: the loop never looks at the event.
LoopRunsForever(p) == TRUE

\* Line 46: while not stop_event.is_set().
LoopRuns(p) == ~stop_event[p]

LoopTest(p) ==
    /\ Running(p)
    /\ bot_pc[p] = "loop"
    /\ bot_pc' = [bot_pc EXCEPT ![p] =
                      IF LoopRuns(p) THEN "check" ELSE "shutdown"]
    /\ UNCHANGED <<flag_file, running_process, switch_pc, updates,
                   proc_state, stop_event, current_position,
                   last_known_position_ticket, terminal, positions, orders>>
    /\ UNCHANGED <<backtest, sim>>

\* Lines 48-59: the position check of an iteration, or an exception in it
\* (lines 131-133).
CheckPosition(p) ==
    /\ Running(p)
    /\ bot_pc[p] = "check"
    /\ \/ /\ current_position' =
                 [current_position EXCEPT ![p] = get_open_position]
          /\ last_known_position_ticket' =
                 [last_known_position_ticket EXCEPT ![p] =
                      IF @ # 0 /\ get_open_position = NoPosition THEN 0
                      ELSE @]
          /\ bot_pc' = [bot_pc EXCEPT ![p] = "branch"]
       \/ /\ bot_pc' = [bot_pc EXCEPT ![p] = "sleep_except"]
          /\ UNCHANGED <<current_position, last_known_position_ticket>>
    /\ UNCHANGED <<flag_file, running_process, switch_pc, updates,
                   proc_state, stop_event, terminal, positions, orders>>
    /\ UNCHANGED <<backtest, sim>>

\* Lines 61-65: a position is open; record its ticket, sleep, continue.
Monitor(p) ==
    /\ Running(p)
    /\ bot_pc[p] = "branch"
    /\ current_position[p] # NoPosition
    /\ last_known_position_ticket' =
           [last_known_position_ticket EXCEPT ![p] = current_position[p]]
    /\ bot_pc' = [bot_pc EXCEPT ![p] = "sleep_monitor"]
    /\ UNCHANGED <<flag_file, running_process, switch_pc, updates,
                   proc_state, stop_event, current_position, terminal,
                   positions, orders>>
    /\ UNCHANGED <<backtest, sim>>

\* Faulty variant: line 65 has no continue.
MayScanAlways(p) == TRUE

\* Lines 61-65: the rest of the iteration runs only past the continue.
MayScan(p) == current_position[p] = NoPosition

\* What lines 67-129 come to: too few rates (lines 69-71), no signal
\* (lines 127-129), a stop too close (lines 94-96), no lot size (lines
\* 105-108), an order the broker fills or rejects (lines 110-125), or an
\* exception (lines 131-133).
ScanOutcomes == {"no_rates", "no_signal", "too_close", "no_lot", "filled",
                 "rejected", "raised"}
Sent(outcome) == outcome \in {"filled", "rejected"}
FilledOrders == {n \in 1..Len(orders) : orders[n].done}

\* Lines 67-129: the scanning branch of an iteration.
Scan(p) ==
    /\ Running(p)
    /\ bot_pc[p] = "branch"
    /\ MayScan(p)
    /\ \E outcome \in ScanOutcomes :
           /\ Sent(outcome) => Len(orders) < MaxOrders
           /\ orders' =
                  IF Sent(outcome)
                  THEN Append(orders, [process |-> p,
                                       seen |-> current_position[p],
                                       done |-> outcome = "filled"])
                  ELSE orders
           /\ positions' =
                  IF outcome = "filled"
                  THEN positions \cup
                       {Position(Cardinality(FilledOrders) + 1,
                                 MAGIC_NUMBER, p)}
                  ELSE positions
           /\ bot_pc' = [bot_pc EXCEPT ![p] =
                  CASE Sent(outcome) -> "sleep_trade"
                    [] outcome = "raised" -> "sleep_except"
                    [] OTHER -> "sleep_scan"]
    /\ UNCHANGED <<flag_file, running_process, switch_pc, updates,
                   proc_state, stop_event, current_position,
                   last_known_position_ticket, terminal>>
    /\ UNCHANGED <<backtest, sim>>

\* time.sleep of lines 64, 70, 95, 107, 125, 129 and 133 returns.
Sleeping == {"sleep_monitor", "sleep_scan", "sleep_trade", "sleep_except"}
Wake(p) ==
    /\ Running(p)
    /\ bot_pc[p] \in Sleeping
    /\ bot_pc' = [bot_pc EXCEPT ![p] = "loop"]
    /\ UNCHANGED <<flag_file, running_process, switch_pc, updates,
                   proc_state, stop_event, current_position,
                   last_known_position_ticket, terminal, positions, orders>>
    /\ UNCHANGED <<backtest, sim>>

\* Lines 163-168 of the shutdown sequence: with a terminal connection, the
\* open position of the bot is closed.
ClosePosition(p) ==
    /\ Running(p)
    /\ bot_pc[p] = "shutdown"
    /\ positions' =
           IF terminal[p] = "on"
           THEN {q \in positions :
                     ~(q.magic = MAGIC_NUMBER /\ q.ticket = get_open_position)}
           ELSE positions
    /\ bot_pc' = [bot_pc EXCEPT ![p] = "disconnect"]
    /\ UNCHANGED <<flag_file, running_process, switch_pc, updates,
                   proc_state, stop_event, current_position,
                   last_known_position_ticket, terminal, orders>>
    /\ UNCHANGED <<backtest, sim>>

\* Lines 169-171: mt5.shutdown() under the test of line 164, and the
\* process ends.
Disconnect(p) ==
    /\ Running(p)
    /\ bot_pc[p] = "disconnect"
    /\ terminal' = [terminal EXCEPT ![p] =
                        IF @ = "on" THEN "shutdown" ELSE @]
    /\ proc_state' = [proc_state EXCEPT ![p] = "exited"]
    /\ bot_pc' = [bot_pc EXCEPT ![p] = "end"]
    /\ UNCHANGED <<flag_file, running_process, switch_pc, updates,
                   stop_event, current_position,
                   last_known_position_ticket, positions, orders>>
    /\ UNCHANGED <<backtest, sim>>

\* A step of the main thread of process p.
MainStep(p) ==
    \/ Initialize(p) \/ LoopTest(p) \/ CheckPosition(p) \/ Monitor(p)
    \/ Scan(p) \/ Wake(p) \/ ClosePosition(p) \/ Disconnect(p)

\* check_for_stop_signal (lines 135-144) finding the flag file: the event
\* is set and the file removed, unless os.remove fails.  A poll that finds
\* no file changes nothing.
WatcherStop(p) ==
    /\ Running(p)
    /\ ~stop_event[p]
    /\ flag_file
    /\ stop_event' = [stop_event EXCEPT ![p] = TRUE]
    /\ \E removed \in BOOLEAN : flag_file' = ~removed
    /\ UNCHANGED <<running_process, switch_pc, updates, proc_state, bot_pc,
                   current_position, last_known_position_ticket, terminal,
                   positions, orders>>
    /\ UNCHANGED <<backtest, sim>>

\* The broker closes a position of the bot at its stop or target.
BrokerCloses ==
    /\ \E q \in BotPositions : positions' = positions \ {q}
    /\ UNCHANGED <<flag_file, running_process, switch_pc, updates,
                   proc_state, bot_pc, stop_event, current_position,
                   last_known_position_ticket, terminal, orders>>
    /\ UNCHANGED <<backtest, sim>>

\* The flag file is written while no switch is modelled.
WriteFlag ==
    /\ ~flag_file
    /\ flag_file' = TRUE
    /\ UNCHANGED <<running_process, switch_pc, updates, proc_state, bot_pc,
                   stop_event, current_position,
                   last_known_position_ticket, terminal, positions, orders>>
    /\ UNCHANGED <<backtest, sim>>

\* A trader started by hand (lines 146-161): process 1 runs, its watcher
\* thread has been started, and run_bot is about to be called.  The flag
\* file may be there already, and so may positions.
TraderInit ==
    /\ BacktestIdle
    /\ SimIdle
    /\ flag_file \in BOOLEAN
    /\ running_process = NoProcess
    /\ switch_pc = "idle"
    /\ updates = <<>>
    /\ proc_state = [p \in Procs |-> IF p = 1 THEN "running" ELSE "none"]
    /\ bot_pc = [p \in Procs |-> "init"]
    /\ stop_event = [p \in Procs |-> FALSE]
    /\ current_position = [p \in Procs |-> NoPosition]
    /\ last_known_position_ticket = [p \in Procs |-> 0]
    /\ terminal = [p \in Procs |-> "off"]
    /\ positions \in SUBSET {Foreign, Earlier}
    /\ orders = <<>>

TraderNext ==
    \/ \E p \in Procs : Initialize(p)
    \/ \E p \in Procs : LoopTest(p)
    \/ \E p \in Procs : CheckPosition(p)
    \/ \E p \in Procs : Monitor(p)
    \/ \E p \in Procs : Scan(p)
    \/ \E p \in Procs : Wake(p)
    \/ \E p \in Procs : ClosePosition(p)
    \/ \E p \in Procs : Disconnect(p)
    \/ \E p \in Procs : WatcherStop(p)
    \/ BrokerCloses
    \/ WriteFlag

\* The two threads of a trader process are scheduled by the operating
\* system and every sleep is finite: a thread that has a step to take
\* eventually takes it.
TraderSpec ==
    /\ TraderInit
    /\ [][TraderNext]_vars
    /\ \A p \in Procs : WF_vars(MainStep(p)) /\ WF_vars(WatcherStop(p))

\* Faulty variant: start does not look at the process it started.
AlreadyRunningUnseen == FALSE

\* Line 44 of the switch: running_process and running_process.poll() is
\* None.
AlreadyRunning ==
    running_process # NoProcess /\ proc_state[running_process] = "running"

\* Line 68: not running_process or running_process.poll() is not None.
NotRunning ==
    running_process = NoProcess \/ proc_state[running_process] # "running"

Handled(user_id, command) ==
    updates' = Append(updates, [user_id |-> user_id, command |-> command])

\* start (lines 38-60) for an update of this user: denied; or the bot is
\* already running; or a stale flag file is removed and Popen starts a
\* process, or raises.
StartCommand(user_id) ==
    /\ switch_pc = "idle"
    /\ Len(updates) < MaxUpdates
    /\ Handled(user_id, "start")
    /\ IF ~is_authorized(user_id) \/ AlreadyRunning
       THEN UNCHANGED <<flag_file, running_process, proc_state>>
       ELSE /\ flag_file' = FALSE
            /\ \/ \E p \in Procs :
                      /\ proc_state[p] = "none"
                      /\ \A o \in 1..(p - 1) : proc_state[o] # "none"
                      /\ proc_state' = [proc_state EXCEPT ![p] = "running"]
                      /\ running_process' = p
               \/ UNCHANGED <<running_process, proc_state>>
    /\ UNCHANGED <<switch_pc, bot_pc, stop_event, current_position,
                   last_known_position_ticket, terminal, positions, orders>>
    /\ UNCHANGED <<backtest, sim>>

\* stop (lines 62-74) for an update of this user: denied; or no bot is
\* running; or the flag file is written, or writing it raises.
StopCommand(user_id) ==
    /\ switch_pc = "idle"
    /\ Len(updates) < MaxUpdates
    /\ Handled(user_id, "stop")
    /\ IF ~is_authorized(user_id) \/ NotRunning
       THEN UNCHANGED <<flag_file, switch_pc>>
       ELSE \/ flag_file' = TRUE /\ switch_pc' = "stopping"
            \/ UNCHANGED <<flag_file, switch_pc>>
    /\ UNCHANGED <<running_process, proc_state, bot_pc, stop_event,
                   current_position, last_known_position_ticket, terminal,
                   positions, orders>>
    /\ UNCHANGED <<backtest, sim>>

\* stop (lines 76-80): running_process.terminate() ends the process where
\* it is, and the handle is dropped.
StopTerminate ==
    /\ switch_pc = "stopping"
    /\ proc_state' = [proc_state EXCEPT ![running_process] =
                          IF @ = "running" THEN "terminated" ELSE @]
    /\ running_process' = NoProcess
    /\ switch_pc' = "idle"
    /\ UNCHANGED <<flag_file, updates, bot_pc, stop_event, current_position,
                   last_known_position_ticket, terminal, positions, orders>>
    /\ UNCHANGED <<backtest, sim>>

\* The switch after its start-up (lines 102-105) has removed the flag file;
\* a position opened by hand may be at the broker.
SwitchInit ==
    /\ BacktestIdle
    /\ SimIdle
    /\ flag_file = FALSE
    /\ running_process = NoProcess
    /\ switch_pc = "idle"
    /\ updates = <<>>
    /\ proc_state = [p \in Procs |-> "none"]
    /\ bot_pc = [p \in Procs |-> "init"]
    /\ stop_event = [p \in Procs |-> FALSE]
    /\ current_position = [p \in Procs |-> NoPosition]
    /\ last_known_position_ticket = [p \in Procs |-> 0]
    /\ terminal = [p \in Procs |-> "off"]
    /\ positions \in SUBSET {Foreign}
    /\ orders = <<>>

\* The switch handles one update at a time; the trader processes it starts
\* and the broker take their steps in between.
SwitchNext ==
    \/ \E user_id \in Users : StartCommand(user_id)
    \/ \E user_id \in Users : StopCommand(user_id)
    \/ StopTerminate
    \/ \E p \in Procs : Initialize(p)
    \/ \E p \in Procs : LoopTest(p)
    \/ \E p \in Procs : CheckPosition(p)
    \/ \E p \in Procs : Monitor(p)
    \/ \E p \in Procs : Scan(p)
    \/ \E p \in Procs : Wake(p)
    \/ \E p \in Procs : ClosePosition(p)
    \/ \E p \in Procs : Disconnect(p)
    \/ \E p \in Procs : WatcherStop(p)
    \/ BrokerCloses

SwitchSpec == SwitchInit /\ [][SwitchNext]_vars

(* ------------------------------ properties ---------------------------- *)
Recs(r) == 1..Len(trades[r])
Rec(r, n) == trades[r][n]
EntryBar(r, n) == ledger_bars[r][n].entry
ExitBar(r, n) == ledger_bars[r][n].exit

\* The bar touches the stop of the recorded position.
HitsStop(rec, bar) ==
    IF rec.trade_type = "buy" THEN bar.low <= rec.stop_loss
    ELSE bar.high >= rec.stop_loss

\* The bar touches the target of the recorded position.
HitsTarget(rec, bar) ==
    IF rec.trade_type = "buy" THEN bar.high >= rec.take_profit
    ELSE bar.low <= rec.take_profit

\* C1: at every cursor value the engine is FLAT or IN_POSITION, never both:
\* the flag is set while the exit scan of a position runs and clear whenever
\* a bar is evaluated; and no two records of a ledger overlap: the entry bar
\* of a later record is not before the exit bar of an earlier one.
C1_OnePositionAtATime ==
    \A r \in Runs :
        /\ trade_is_open[r] \in BOOLEAN
        /\ pc[r] = "scan" => trade_is_open[r]
        /\ AtBar(r) => ~trade_is_open[r]
        /\ Len(ledger_bars[r]) = Len(trades[r])
        /\ \A m, n \in Recs(r) : m < n => EntryBar(r, n) >= ExitBar(r, m)

C1_Witness ==
    \E r \in Runs : Len(trades[r]) >= 2 /\ pc[r] = "scan"

\* C2 (as claimed): no record is entered on the bar on which the preceding
\* record exited.
C2_NoEntryOnExitBar ==
    \A r \in Runs : \A n \in Recs(r) :
        n > 1 => EntryBar(r, n) > ExitBar(r, n - 1)

\* C3: the ledger is strictly ordered by entry_time and every record exits
\* strictly after it was entered, at bar entry + 1 or later.
C3_MonotonicLedger ==
    \A r \in Runs : \A n \in Recs(r) :
        /\ Rec(r, n).entry_time = df[EntryBar(r, n)].timestamp
        /\ Rec(r, n).exit_time = df[ExitBar(r, n)].timestamp
        /\ Rec(r, n).exit_time > Rec(r, n).entry_time
        /\ ExitBar(r, n) >= EntryBar(r, n) + 1
        /\ n > 1 => Rec(r, n).entry_time > Rec(r, n - 1).entry_time

C3_Witness ==
    \E r \in Runs :
        /\ Len(trades[r]) >= 2
        /\ ExitBar(r, 1) > EntryBar(r, 1) + 1

InWindow(t) == london_open <= TimeOfDay(t) /\ TimeOfDay(t) <= ny_close

C4_EntriesInSession ==
    \A r \in Runs :
        /\ \A n \in Recs(r) : InWindow(Rec(r, n).entry_time)
        /\ pc[r] = "scan" => InWindow(df[i[r]].timestamp)

C4_OutOfSessionStep ==
    \A r \in Runs :
        (AtBar(r) /\ Turn(r) /\ ~InWindow(df[i[r]].timestamp)) =>
            /\ i'[r] = i[r] + 1
            /\ pc'[r] = "loop"
            /\ trade_is_open'[r] = FALSE
            /\ trades'[r] = trades[r]
            /\ balance'[r] = balance[r]

\* C4: every record is entered on a bar whose time of day lies in
\* [08:00, 22:00], and a step taken on a bar outside that window opens no
\* position and moves the cursor by exactly one.
C4_SessionContainment ==
    [](C4_EntriesInSession) /\ [][C4_OutOfSessionStep]_vars

C4_Witness ==
    \E r \in Runs :
        /\ Len(trades[r]) >= 1
        /\ TimeOfDay(Rec(r, 1).entry_time) = ny_close
        /\ AtBar(r) /\ ~InWindow(df[i[r]].timestamp)

PrevBalance(r, n) ==
    IF n = 1 THEN RInt(InitialBalance) ELSE Rec(r, n - 1).account_balance

\* C5: each record's account_balance is the previous record's plus its own
\* pnl_currency, starting from 10000, and the account balance is always the
\* last record's (it changes only when a record is appended).
C5_BalanceContinuity ==
    \A r \in Runs :
        pc[r] # "start" =>
            /\ \A n \in Recs(r) :
                   Rec(r, n).account_balance =
                       RAdd(PrevBalance(r, n), Rec(r, n).pnl_currency)
            /\ balance[r] = PrevBalance(r, Len(trades[r]) + 1)

C5_Witness ==
    \E r \in Runs :
        /\ Len(trades[r]) >= 2
        /\ Rec(r, 1).result = "win"
        /\ Rec(r, 2).result = "loss"

\* C6: a record's result is 'win' or 'loss'; a win exits at take_profit and
\* a loss at stop_loss, for buys and sells.
C6_ExitAtStopOrTarget ==
    \A r \in Runs : \A n \in Recs(r) :
        /\ Rec(r, n).result \in {"win", "loss"}
        /\ Rec(r, n).result = "win" =>
               Rec(r, n).exit_price = Rec(r, n).take_profit
        /\ Rec(r, n).result = "loss" =>
               Rec(r, n).exit_price = Rec(r, n).stop_loss

C6_Witness ==
    \E r \in Runs : \E m, n \in Recs(r) :
        /\ Rec(r, m).trade_type = "buy" /\ Rec(r, m).result = "win"
        /\ Rec(r, n).trade_type = "buy" /\ Rec(r, n).result = "loss"

\* C7: when the bar a position exits on touches both its stop and its
\* target, the record is a loss at stop_loss.
C7_StopFirst ==
    \A r \in Runs : \A n \in Recs(r) :
        (/\ HitsStop(Rec(r, n), df[ExitBar(r, n)])
         /\ HitsTarget(Rec(r, n), df[ExitBar(r, n)])) =>
            /\ Rec(r, n).result = "loss"
            /\ Rec(r, n).exit_price = Rec(r, n).stop_loss

C7_Witness ==
    \E r \in Runs : \E n \in Recs(r) :
        /\ HitsStop(Rec(r, n), df[ExitBar(r, n)])
        /\ HitsTarget(Rec(r, n), df[ExitBar(r, n)])

\* C8: the exit bar of a record touches the stop or the target, and no bar
\* strictly between the entry bar and the exit bar touches either.
C8_EarliestExit ==
    \A r \in Runs : \A n \in Recs(r) :
        /\ \/ HitsStop(Rec(r, n), df[ExitBar(r, n)])
           \/ HitsTarget(Rec(r, n), df[ExitBar(r, n)])
        /\ \A m \in (EntryBar(r, n) + 1)..(ExitBar(r, n) - 1) :
               /\ ~HitsStop(Rec(r, n), df[m])
               /\ ~HitsTarget(Rec(r, n), df[m])

C8_Witness ==
    \E r \in Runs : \E n \in Recs(r) :
        ExitBar(r, n) >= EntryBar(r, n) + 3

\* C9: two runs on the same frame, each with its own logger, end with
\* identical ledgers.
C9_Deterministic ==
    (\A r \in Runs : pc[r] = "done") =>
        \A r, q \in Runs : trades[r] = trades[q]

C9_Witness ==
    /\ \A r \in Runs : pc[r] = "done"
    /\ Len(trades[1]) >= 2

\* C10 (as claimed): a position is opened at bar i only on swings whose
\* confirmation window is complete at i: the swing broken and the swing used
\* as stop both have index k with k + Lookback <= i.
C10_SwingsConfirmed ==
    \A r \in Runs :
        pc[r] = "scan" =>
            /\ pos[r].trigger_bar + Lookback <= i[r]
            /\ pos[r].stop_bar + Lookback <= i[r]

\* The setup detected on the bar under the cursor of run r.
Setup(r) == Detect(i[r])

\* The step discards the setup: no record, same balance, FLAT, cursor + 1.
C11_DiscardStep ==
    \A r \in Runs :
        (/\ Turn(r) /\ Evaluated(r)
         /\ Setup(r).trade_triggered
         /\ \/ Abs(Setup(r).entry_price - Setup(r).stop_loss)
                   <= MinStopDistance
            \/ ~RPos(SizeFor(r, Setup(r)))) =>
            /\ i'[r] = i[r] + 1
            /\ pc'[r] = "loop"
            /\ trade_is_open'[r] = FALSE
            /\ trades'[r] = trades[r]
            /\ balance'[r] = balance[r]

\* C11: a step taken on a bar whose detected setup has a stop at most 0.0001
\* from the entry, or a position size that is not positive, appends no
\* record, leaves the balance unchanged, stays FLAT and moves the cursor by
\* exactly one bar.
C11_DegenerateSetupDiscarded == [][C11_DiscardStep]_vars

\* The bar before the cursor was evaluated with no position ever opened, and
\* its setup had a stop exactly 0.0001 from the entry.
C11_Witness ==
    \E r \in Runs :
        /\ pc[r] = "loop" /\ i[r] > WarmUp
        /\ pos[r] = NoPos /\ trades[r] = <<>>
        /\ InSession(i[r] - 1)
        /\ Detect(i[r] - 1).trade_triggered
        /\ sl_distance(Detect(i[r] - 1)) = MinStopDistance

\* No bar after the entry bar of the open position touches stop or target.
NoExitAhead(r) ==
    \A m \in (pos[r].entry_bar + 1)..(N - 1) :
        ~HitsStop(pos[r], df[m]) /\ ~HitsTarget(pos[r], df[m])

\* No record of the ledger belongs to the position in pos.
NotRecorded(r) ==
    \A n \in Recs(r) : EntryBar(r, n) # pos[r].entry_bar

C12_UnresolvedStep ==
    \A r \in Runs :
        (Turn(r) /\ pc[r] = "scan" /\ NoExitAhead(r)) =>
            /\ trades'[r] = trades[r]
            /\ balance'[r] = balance[r]
            /\ pc'[r] \in {"scan", "loop"}
            /\ pc'[r] = "loop" => i'[r] = N

C12_UnresolvedEnd ==
    \A r \in Runs :
        (trade_is_open[r] /\ pc[r] \in {"loop", "done"}) =>
            /\ i[r] = N
            /\ NoExitAhead(r)
            /\ NotRecorded(r)
            /\ balance[r] = PrevBalance(r, Len(trades[r]) + 1)

\* C12: while the exit scan of a position that no later bar closes runs, no
\* record is appended and the balance does not change; when the scan ends
\* the cursor is the series length, so that no further bar is evaluated, and
\* the ledger has no record of that position.
C12_UnresolvedEndsRun ==
    [](C12_UnresolvedEnd) /\ [][C12_UnresolvedStep]_vars

C12_Witness ==
    \E r \in Runs :
        /\ pc[r] = "done" /\ trade_is_open[r]
        /\ Len(trades[r]) >= 1
        /\ pos[r].entry_bar < N - 2

\* What the caller of run_backtest holds when it returns: the return value
\* and the trades of the logger it passed.  The unresolved position is
\* reported when one of them mentions it.
Reported(r) ==
    \/ run_backtest_result(r) # "None"
    \/ \E n \in Recs(r) : Rec(r, n).entry_time = df[pos[r].entry_bar].timestamp

\* C13 (as claimed): a run that ends with a position still open reports that
\* position to its caller.
C13_UnresolvedReported ==
    \A r \in Runs :
        (pc[r] = "done" /\ trade_is_open[r]) => Reported(r)

\* C14 (as claimed): the engine is FLAT when the main loop has terminated.
C14_TerminalFlat ==
    \A r \in Runs : pc[r] = "done" => ~trade_is_open[r]

\* C14 (amended): the engine is FLAT before the loop starts, and when the
\* loop has terminated it is FLAT unless the last position it opened met no
\* exit bar, in which case the open flag is still set.
C14_FlatUnlessUnresolved ==
    \A r \in Runs :
        /\ pc[r] = "start" => ~trade_is_open[r]
        /\ (pc[r] = "loop" /\ i[r] = WarmUp /\ pos[r] = NoPos) =>
               ~trade_is_open[r]
        /\ pc[r] = "done" =>
               (trade_is_open[r] <=>
                   (pos[r].entry_bar >= 0 /\ NoExitAhead(r)))

C14_Witness ==
    \E r \in Runs :
        /\ pc[r] = "done" /\ trade_is_open[r]
        /\ Len(trades[r]) >= 2
        /\ pos[r].entry_bar = ExitBar(r, Len(trades[r]))

\* The cursor when the condition of the main loop is false: the series
\* length, or the warm-up offset on a series shorter than that.
EndCursor == IF N >= WarmUp THEN N ELSE WarmUp

\* C15: once run_backtest is called on the prepared frame, its main loop
\* terminates: the cursor reaches the series length (on a series shorter
\* than the warm-up offset it starts beyond it).
C15_Terminates ==
    \A r \in Runs :
        (stage = "prepared") ~> (pc[r] = "done" /\ i[r] = EndCursor)

C15_Witness ==
    \E r \in Runs :
        /\ pc[r] = "done" /\ i[r] = N
        /\ ~trade_is_open[r] /\ Len(trades[r]) >= 2
        /\ ExitBar(r, Len(trades[r])) < N - 1

\* An iteration of the main loop of run r ends with this step.
IterationEnds(r) == pc[r] \in {"loop", "scan"} /\ pc'[r] = "loop"

C16_CursorStep ==
    \A r \in Runs :
        /\ i'[r] >= i[r]
        /\ IterationEnds(r) => i'[r] > i[r]
        /\ (IterationEnds(r) /\ Len(trades'[r]) > Len(trades[r])) =>
               LET closed == ledger_bars'[r][Len(trades'[r])]
               IN  /\ i[r] = closed.entry
                   /\ i'[r] = closed.exit
                   /\ closed.exit > closed.entry

\* C16: the cursor never decreases, and every iteration of the main loop
\* leaves it strictly greater than it found it; the iteration that closes a
\* trade moves it from the entry bar to the exit bar, which is greater.
C16_CursorIncreases == [][C16_CursorStep]_vars

C16_Witness ==
    \E r \in Runs :
        /\ pc[r] = "loop" /\ trades[r] # <<>>
        /\ i[r] = ExitBar(r, Len(trades[r]))
        /\ i[r] > EntryBar(r, Len(trades[r])) + 1

\* The timestamps of the frame are strictly increasing.
Ordered(bars) ==
    \A k \in DOMAIN bars :
        (k + 1) \in DOMAIN bars => bars[k].timestamp < bars[k + 1].timestamp

\* C17 (as claimed): on a series whose timestamps repeat or go backwards,
\* run_backtest is never started and no record is produced.
C17_DisorderRejected ==
    ~Ordered(df) => \A r \in Runs : pc[r] = "start" /\ trades[r] = <<>>

\* The three cases in which the entry point has no series to simulate.
NoTimeColumn == file.column \notin {"time", "timestamp"}
EmptySeries == file.rows = "none"
LoadingFails ==
    \/ file.ext \notin {"csv", "zip"}
    \/ ~file.found
    \/ file.ext = "zip" /\ ~file.member
    \/ ~file.parses

\* C18: when the file has neither a 'time' nor a 'timestamp' column, or has
\* no rows, or cannot be loaded, run_backtest is never started, no trade log
\* is written and no report is generated.
C18_NoDataNoRun ==
    (NoTimeColumn \/ EmptySeries \/ LoadingFails) =>
        /\ \A r \in Runs : pc[r] = "start" /\ trades[r] = <<>>
        /\ stage # "prepared"
        /\ ~log_file.exists
        /\ ~report

C18_Witness ==
    /\ stage = "finished"
    /\ NoTimeColumn /\ ~EmptySeries /\ ~LoadingFails

\* C19: the take_profit of every record, and of the open position, is the
\* entry price plus twice the stop distance for a buy and minus twice the
\* stop distance for a sell.
C19_TakeProfitTwiceRisk ==
    \A r \in Runs :
        /\ \A n \in Recs(r) :
               LET rec == Rec(r, n)
                   dist == Abs(rec.entry_price - rec.stop_loss)
               IN  /\ rec.trade_type \in {"buy", "sell"}
                   /\ rec.trade_type = "buy" =>
                          rec.take_profit = rec.entry_price + 2 * dist
                   /\ rec.trade_type = "sell" =>
                          rec.take_profit = rec.entry_price - 2 * dist
        /\ pc[r] = "scan" =>
               LET dist == Abs(pos[r].entry_price - pos[r].stop_loss)
               IN  pos[r].take_profit =
                       IF pos[r].trade_type = "buy"
                       THEN pos[r].entry_price + 2 * dist
                       ELSE pos[r].entry_price - 2 * dist

C19_Witness ==
    \E r \in Runs : \E n \in Recs(r) :
        /\ Rec(r, n).trade_type = "sell"
        /\ Rec(r, n).result = "win"
        /\ Rec(r, n).take_profit < Rec(r, n).entry_price

\* The prices get_position_size is evaluated on in every reachable state.
SizerPrices == 5..8

\* size is the risk_percent part of bal divided by the distance dist > 0.
IsRiskShare(size, bal, dist) ==
    RMul(size, RInt(100 * dist)) = RMul(bal, RInt(RiskPercent))

\* C20: get_position_size is 0 when entry and stop coincide and otherwise
\* balance * risk_percent / 100 / |entry - stop| for the balance the account
\* has at the call, after the trades closed so far; the size of the open
\* position and of every record is that of the balance before the trade,
\* and the balance after the call is the balance before it.
C20_PositionSize ==
    \A r \in Runs :
        pc[r] # "start" =>
            /\ \A e, s \in SizerPrices :
                   LET size == get_position_size(balance[r], RiskPercent, e, s)
                   IN  IF e = s THEN size = RInt(0)
                       ELSE IsRiskShare(size, balance[r], Abs(e - s))
            /\ pc[r] = "scan" =>
                   /\ balance[r] = PrevBalance(r, Len(trades[r]) + 1)
                   /\ IsRiskShare(pos[r].position_size, balance[r],
                                  Abs(pos[r].entry_price - pos[r].stop_loss))
            /\ \A n \in Recs(r) :
                   IsRiskShare(Rec(r, n).position_size, PrevBalance(r, n),
                               Abs(Rec(r, n).entry_price
                                   - Rec(r, n).stop_loss))

C20_Witness ==
    \E r \in Runs :
        /\ pc[r] = "scan" /\ Len(trades[r]) >= 1
        /\ balance[r] # RInt(InitialBalance)

\* The realized P&L the claim gives for a record.
RealizedPnl(rec) ==
    IF rec.trade_type = "buy"
    THEN RMul(RInt(rec.exit_price - rec.entry_price), rec.position_size)
    ELSE RMul(RInt(rec.entry_price - rec.exit_price), rec.position_size)

C21_Records ==
    \A r \in Runs : \A n \in Recs(r) :
        /\ Rec(r, n).trade_type \in {"buy", "sell"}
        /\ Rec(r, n).pnl_currency = RealizedPnl(Rec(r, n))

\* Within a run the balance changes only on the step that appends a record,
\* and that step adds the P&L of the new record to it.
C21_BalanceStep ==
    \A r \in Runs :
        pc[r] # "start" =>
            /\ Len(trades'[r]) \in {Len(trades[r]), Len(trades[r]) + 1}
            /\ Len(trades'[r]) = Len(trades[r]) => balance'[r] = balance[r]
            /\ Len(trades'[r]) = Len(trades[r]) + 1 =>
                   balance'[r] =
                       RAdd(balance[r],
                            RealizedPnl(trades'[r][Len(trades'[r])]))

\* C21: the pnl_currency of every record is (exit_price - entry_price) *
\* position_size for a buy and (entry_price - exit_price) * position_size
\* for a sell, and the balance is increased by that amount on the step that
\* appends the record and on no other step.
C21_PnlRealizedOnce == [](C21_Records) /\ [][C21_BalanceStep]_vars

C21_Witness ==
    \E r \in Runs : \E m, n \in Recs(r) :
        /\ m < n
        /\ Rec(r, m).trade_type = "sell"
        /\ Rec(r, n).trade_type = "sell"
        /\ Rec(r, n).pnl_currency[1] < 0
        /\ balance[r] = Rec(r, n).account_balance

\* C22: every buy record, and every open buy, is entered on a bar with
\* ema_fast > ema_slow and every sell on a bar with ema_fast <= ema_slow; in
\* particular a position entered on a bar where the two are equal is a
\* sell, and so is every setup detected on such a bar.
C22_TrendGate ==
    \A r \in Runs :
        /\ \A n \in Recs(r) :
               LET bar == df[EntryBar(r, n)]
               IN  /\ Rec(r, n).trade_type = "buy" =>
                          bar.ema_fast > bar.ema_slow
                   /\ Rec(r, n).trade_type = "sell" =>
                          bar.ema_fast <= bar.ema_slow
                   /\ bar.ema_fast = bar.ema_slow =>
                          Rec(r, n).trade_type = "sell"
        /\ pc[r] = "scan" =>
               LET bar == df[pos[r].entry_bar]
               IN  IF bar.ema_fast > bar.ema_slow
                   THEN pos[r].trade_type = "buy"
                   ELSE pos[r].trade_type = "sell"
        /\ (Evaluated(r) /\ Setup(r).trade_triggered) =>
               IF df[i[r]].ema_fast > df[i[r]].ema_slow
               THEN Setup(r).trade_type = "buy"
               ELSE Setup(r).trade_type = "sell"

\* A sell recorded from a bar on which the two averages are equal.
C22_Witness ==
    \E r \in Runs : \E n \in Recs(r) :
        /\ Rec(r, n).trade_type = "sell"
        /\ df[EntryBar(r, n)].ema_fast = df[EntryBar(r, n)].ema_slow

\* Row k is a swing-high formed while ema_fast < ema_slow.
LowerHigh(k) == df[k].swing_high = 1 /\ df[k].ema_fast < df[k].ema_slow
\* Row k is a swing-low formed while ema_fast > ema_slow.
HigherLow(k) == df[k].swing_low = 1 /\ df[k].ema_fast > df[k].ema_slow
SwingHigh(k) == df[k].swing_high = 1
SwingLow(k) == df[k].swing_low = 1

\* The detectors' answers on the bar under the cursor of run r.
LiveSetup(r) == get_market_structure_shift(df, i[r])

\* C23: on an evaluated bar with ema_fast > ema_slow a long setup is
\* produced exactly when a swing-high below the cursor formed under
\* ema_fast < ema_slow exists, the close of the bar is above the high of the
\* last of them, and a swing-low below the cursor exists; its entry is the
\* close of the bar and its stop the low of the last swing-low below the
\* cursor.  The live detector answers the same.
C23_LongSetup ==
    \A r \in Runs :
        (Evaluated(r) /\ df[i[r]].ema_fast > df[i[r]].ema_slow) =>
            LET c == i[r]
                before == 0..(c - 1)
                broken == \E k \in before :
                              /\ LowerHigh(k)
                              /\ \A m \in (k + 1)..(c - 1) : ~LowerHigh(m)
                              /\ df[c].close > df[k].high
                produced == broken /\ \E k \in before : SwingLow(k)
            IN  /\ produced <=>
                       (Setup(r).trade_triggered /\ Setup(r).trade_type = "buy")
                /\ Setup(r).trade_triggered => Setup(r).trade_type = "buy"
                /\ produced <=> ~LiveSetup(r).none
                /\ produced =>
                       /\ Setup(r).entry_price = df[c].close
                       /\ \E k \in before :
                              /\ SwingLow(k)
                              /\ \A m \in (k + 1)..(c - 1) : ~SwingLow(m)
                              /\ Setup(r).stop_loss = df[k].low
                       /\ LiveSetup(r).trade_type = "buy"
                       /\ LiveSetup(r).entry_price = Setup(r).entry_price
                       /\ LiveSetup(r).stop_loss = Setup(r).stop_loss

\* A long setup whose stop is a swing-low later than the swing-high broken.
C23_Witness ==
    \E r \in Runs :
        /\ Evaluated(r)
        /\ Setup(r).trade_triggered /\ Setup(r).trade_type = "buy"
        /\ Setup(r).stop_bar > Setup(r).trigger_bar
        /\ Setup(r).stop_loss # df[Setup(r).trigger_bar].low

\* C24: on an evaluated bar with ema_fast <= ema_slow a short setup is
\* produced exactly when a swing-low below the cursor formed under
\* ema_fast > ema_slow exists, the close of the bar is below the low of the
\* last of them, and a swing-high below the cursor exists; its entry is the
\* close of the bar and its stop the high of the last swing-high below the
\* cursor.  The live detector answers the same.
C24_ShortSetup ==
    \A r \in Runs :
        (Evaluated(r) /\ ~(df[i[r]].ema_fast > df[i[r]].ema_slow)) =>
            LET c == i[r]
                before == 0..(c - 1)
                broken == \E k \in before :
                              /\ HigherLow(k)
                              /\ \A m \in (k + 1)..(c - 1) : ~HigherLow(m)
                              /\ df[c].close < df[k].low
                produced == broken /\ \E k \in before : SwingHigh(k)
            IN  /\ produced <=>
                       (Setup(r).trade_triggered /\ Setup(r).trade_type = "sell")
                /\ Setup(r).trade_triggered => Setup(r).trade_type = "sell"
                /\ produced <=> ~LiveSetup(r).none
                /\ produced =>
                       /\ Setup(r).entry_price = df[c].close
                       /\ \E k \in before :
                              /\ SwingHigh(k)
                              /\ \A m \in (k + 1)..(c - 1) : ~SwingHigh(m)
                              /\ Setup(r).stop_loss = df[k].high
                       /\ LiveSetup(r).trade_type = "sell"
                       /\ LiveSetup(r).entry_price = Setup(r).entry_price
                       /\ LiveSetup(r).stop_loss = Setup(r).stop_loss

\* A short setup whose stop is a swing-high later than the swing-low broken.
C24_Witness ==
    \E r \in Runs :
        /\ Evaluated(r)
        /\ Setup(r).trade_triggered /\ Setup(r).trade_type = "sell"
        /\ Setup(r).stop_bar > Setup(r).trigger_bar
        /\ Setup(r).stop_loss # df[Setup(r).trigger_bar].high

\* C25: the cursor of a run is never below the warm-up offset 200, so no
\* record and no open position has an entry bar below it; on a series of
\* 200 bars or fewer no bar is ever under evaluation, no position is opened
\* and the ledger stays empty.
C25_WarmUp ==
    \A r \in Runs :
        /\ pc[r] # "start" => i[r] >= 200
        /\ \A n \in Recs(r) : EntryBar(r, n) >= 200
        /\ pc[r] = "scan" => pos[r].entry_bar >= 200
        /\ N <= 200 =>
               /\ ~AtBar(r)
               /\ pc[r] # "scan"
               /\ pos[r] = NoPos
               /\ trades[r] = <<>>

\* Both runs have returned on a series of exactly 200 bars.
C25_Witness ==
    /\ N = 200
    /\ \A r \in Runs : pc[r] = "done" /\ i[r] = 200

\* The ledger of run r after the step is the ledger before it, or the
\* ledger before it followed by one record.
C26_AppendStep ==
    \A r \in Runs :
        /\ Len(trades'[r]) \in {Len(trades[r]), Len(trades[r]) + 1}
        /\ \A n \in 1..Len(trades[r]) : trades'[r][n] = trades[r][n]
        /\ Len(trades'[r]) = Len(trades[r]) + 1 =>
               /\ pc[r] = "scan"
               /\ trades'[r][Len(trades'[r])].entry_time = df[i[r]].timestamp
               /\ trades'[r][Len(trades'[r])].exit_time = df[j[r]].timestamp

\* C26: a step of the engine, of save_log or of generate_report leaves the
\* ledger as it is or appends exactly one record at its end (the record of
\* the position that just closed); every record already in the ledger stays
\* in its place unchanged, so the ledger never gets shorter.
C26_LedgerAppendOnly == [][C26_AppendStep]_vars

\* The log was saved and reported after a run that appended twice.
C26_Witness ==
    /\ stage = "finished"
    /\ Len(trades[1]) >= 2
    /\ log_file.rows = trades[1]

\* The greatest high and the least low of the bars k-Lookback..k+Lookback.
WindowMax(k) ==
    LET win == (k - Lookback)..(k + Lookback)
        top == CHOOSE m \in win : \A q \in win : df[q].high <= df[m].high
    IN  df[top].high
WindowMin(k) ==
    LET win == (k - Lookback)..(k + Lookback)
        bottom == CHOOSE m \in win : \A q \in win : df[q].low >= df[m].low
    IN  df[bottom].low

\* C27: in the frame find_swing_points returns, bar k is flagged swing_high
\* exactly when Lookback <= k <= N - 1 - Lookback and its high equals the
\* greatest high of bars k-Lookback..k+Lookback, and swing_low likewise with
\* the least low; the first and the last Lookback bars are not flagged, and
\* the selections of run_backtest (lines 52-53) are the flagged bars.
C27_SwingFlags ==
    (stage = "prepared" /\ pc[1] = "start") =>
        \A k \in DOMAIN df :
            LET inside == Lookback <= k /\ k <= N - 1 - Lookback
            IN  /\ df[k].swing_high = 1 <=>
                       (inside /\ df[k].high = WindowMax(k))
                /\ df[k].swing_low = 1 <=>
                       (inside /\ df[k].low = WindowMin(k))
                /\ Mask("swing_highs", df, k) <=> df[k].swing_high = 1
                /\ Mask("swing_lows", df, k) <=> df[k].swing_low = 1

\* Two neighbours with equal highs are both flagged, the first bar after the
\* warm-up is flagged alone in its window, and the last bar is not flagged
\* although no bar is higher.
C27_Witness ==
    /\ stage = "prepared" /\ pc[1] = "start"
    /\ df[100].swing_high = 1 /\ df[101].swing_high = 1
    /\ df[100].high = df[101].high
    /\ df[WarmUp].swing_high = 1 /\ df[WarmUp - 1].swing_high = 0
    /\ df[N - 1].swing_high # 1 /\ df[N - 1].high = df[WarmUp].high

\* run_backtest executed alone on the frame, from cursor c with balance bal
\* and ledger log to its return: the ledger and the balance it ends with.
RECURSIVE AloneFrom(_, _, _)
AloneFrom(c, bal, log) ==
    IF c >= N THEN [trades |-> log, balance |-> bal]
    ELSE IF ~InSession(c) THEN AloneFrom(c + 1, bal, log)
    ELSE LET s == Detect(c)
             size == get_position_size(bal, RiskPercent, s.entry_price,
                                       s.stop_loss)
             p == [trade_type |-> s.trade_type,
                   entry_price |-> s.entry_price,
                   stop_loss |-> s.stop_loss,
                   take_profit |-> TakeProfit(s),
                   position_size |-> size]
             exits == {m \in (c + 1)..(N - 1) :
                           ExitResult(p, df[m]) # "None"}
         IN  IF \/ ~s.trade_triggered
                \/ sl_distance(s) <= MinStopDistance
                \/ ~RPos(size)
             THEN AloneFrom(c + 1, bal, log)
             ELSE IF exits = {} THEN [trades |-> log, balance |-> bal]
             ELSE LET m == CHOOSE m \in exits : \A q \in exits : m <= q
                      result == ExitResult(p, df[m])
                      exit_price == ExitPrice(p, result)
                      pnl == PnlCurrency(p, exit_price)
                      newbal == RAdd(bal, pnl)
                  IN  AloneFrom(m, newbal,
                          log_trade(log, df[c].timestamp, df[m].timestamp,
                                    p.trade_type, p.entry_price, exit_price,
                                    p.stop_loss, p.take_profit, size, pnl,
                                    newbal, result, s.setup_type,
                                    s.trigger_level))

Alone == AloneFrom(WarmUp, RInt(InitialBalance), <<>>)

\* What run r owns: its locals, its account and its logger.
Own(r) ==
    <<pc[r], i[r], j[r], trade_is_open[r], balance[r], pos[r], trades[r]>>

\* A step changes what at most one run owns.
C28_OwnStep ==
    \A r, q \in Runs : (r # q /\ Own(r)' # Own(r)) => Own(q)' = Own(q)

C28_SameAsAlone ==
    \A r \in Runs :
        pc[r] = "done" =>
            /\ trades[r] = Alone.trades
            /\ balance[r] = Alone.balance

\* C28: however the steps of two calls of run_backtest on the same frame,
\* each with its own logger, are interleaved, a step of one call changes
\* nothing the other owns, and each call returns with the ledger and the
\* balance of the call executed alone.
C28_RunsIndependent == [](C28_SameAsAlone) /\ [][C28_OwnStep]_vars

\* The second call has returned with two records while the first, with one
\* record, is still scanning for an exit.
C28_Witness ==
    /\ pc[2] = "done" /\ Len(trades[2]) >= 2
    /\ pc[1] = "scan" /\ Len(trades[1]) = 1

\* C29 (as claimed): the stop of every open position is on the protective
\* side of its entry and the target on the other side.
C29_ProtectiveStop ==
    \A r \in Runs :
        pc[r] = "scan" =>
            IF pos[r].trade_type = "buy"
            THEN /\ pos[r].stop_loss < pos[r].entry_price
                 /\ pos[r].entry_price < pos[r].take_profit
            ELSE /\ pos[r].take_profit < pos[r].entry_price
                 /\ pos[r].entry_price < pos[r].stop_loss

\* C30 (as claimed): every record labelled 'loss' has a negative P&L and
\* every record labelled 'win' a positive one.
C30_LabelMatchesPnl ==
    \A r \in Runs : \A n \in Recs(r) :
        /\ Rec(r, n).result = "loss" => Rec(r, n).pnl_currency[1] < 0
        /\ Rec(r, n).result = "win" => Rec(r, n).pnl_currency[1] > 0


\* C31: the ledger main of simulate_live_markets writes is balance
\* continuous on every path: the account_balance of each record is the
\* account_balance of the record before it, 10000 for the first, plus the
\* pnl_currency of the record.
LedgerOfMain == IF main_pc = "done" THEN logged ELSE <<>>
C31_MainLedgerContinuous ==
    \A n \in 1..Len(LedgerOfMain) :
        LedgerOfMain[n].account_balance =
            (IF n = 1 THEN InitialBalance
             ELSE LedgerOfMain[n - 1].account_balance)
            + LedgerOfMain[n].pnl_currency


\* Lines 67-110 of run_backtest at cursor c: the session filter, then the
\* inlined detection.
InlineDetect(c) ==
    IF InSession(c) THEN Detect(c)
    ELSE [trade_triggered |-> FALSE, trade_type |-> "None",
          entry_price |-> 0, stop_loss |-> 0, setup_type |-> "None",
          trigger_level |-> <<>>, trigger_bar |-> -1, stop_bar |-> -1]

DetectorsAgreeAt(c) ==
    LET inlined == InlineDetect(c)
        mss_signal == get_market_structure_shift(df, c)
    IN  IF inlined.trade_triggered
        THEN /\ ~mss_signal.none
             /\ mss_signal.trade_type = inlined.trade_type
             /\ mss_signal.entry_price = inlined.entry_price
             /\ mss_signal.stop_loss = inlined.stop_loss
             /\ mss_signal.trigger_level = inlined.trigger_level
        ELSE mss_signal.none

\* The frame has its swing columns and no call of run_backtest has begun.
FrameReady == stage = "prepared" /\ \A r \in Runs : pc[r] = "start"

Sends(p) ==
    /\ Len(orders') = Len(orders) + 1
    /\ orders'[Len(orders')].process = p

\* C33: the trading loop sends a market order only in an iteration whose
\* get_open_position check returned no position of the bot; in an
\* iteration that saw an open position it sends no order, and only records
\* the ticket and sleeps.
C33_Step(p) ==
    /\ Sends(p) => bot_pc[p] = "branch" /\ current_position[p] = NoPosition
    /\ (/\ Running(p)
        /\ bot_pc[p] = "branch"
        /\ current_position[p] # NoPosition
        /\ bot_pc'[p] # bot_pc[p])
       => /\ orders' = orders
          /\ positions' = positions
          /\ last_known_position_ticket'[p] = current_position[p]
          /\ bot_pc'[p] = "sleep_monitor"
C33_OrderOnlyWhenFlat == [][\A p \in Procs : C33_Step(p)]_vars
C33_Witness ==
    \E p \in Procs :
        /\ Running(p)
        /\ bot_pc[p] = "sleep_monitor"
        /\ last_known_position_ticket[p] = current_position[p]
        /\ \E n \in 1..Len(orders) :
               /\ orders[n].process = p
               /\ orders[n].done
               /\ orders[n].seen = NoPosition
               /\ current_position[p] = Cardinality({m \in 1..n : orders[m].done})

\* run_bot of process p is in its loop.
InLoop(p) == Running(p) /\ bot_pc[p] \in {"loop", "check", "branch"} \cup Sleeping

Gone(p) == proc_state[p] \in {"exited", "terminated"}
AuthorizedStop ==
    \E n \in 1..Len(updates) :
        updates[n] = [user_id |-> AUTHORIZED_USER_ID, command |-> "stop"]

\* C35: after an authorized /stop while the trader is running, the trader
\* process is never gone while a position it opened is still open.
C35_NoPositionLeftOpen ==
    AuthorizedStop =>
        \A p \in Procs : Gone(p) => ~\E q \in positions : q.opener = p

Spawned(p) == proc_state[p] = "none" /\ proc_state'[p] = "running"

\* C36: at most one trader process started by the switch is alive at any
\* time; a process is spawned only by an authorized /start, and only when
\* no process is running.
C36_SpawnStep ==
    \A p \in Procs :
        Spawned(p) =>
            /\ \A o \in Procs : ~Running(o)
            /\ updates'[Len(updates')] =
                   [user_id |-> AUTHORIZED_USER_ID, command |-> "start"]
            /\ running_process' = p
C36_SingleTrader ==
    /\ [](Cardinality({p \in Procs : Running(p)}) <= 1)
    /\ [][C36_SpawnStep]_vars
C36_Witness ==
    /\ \E p, o \in Procs : Running(p) /\ Gone(o)
    /\ \E n \in 2..Len(updates) :
           /\ updates[n - 1].user_id = AUTHORIZED_USER_ID
           /\ updates[n - 1].command = "start"
           /\ updates[n] = updates[n - 1]

\* C37: a /start or /stop of a user who is not the authorized one changes
\* nothing in the switch: no process is spawned or terminated, the flag
\* file is neither created nor removed, and running_process is unchanged.
C37_Step ==
    (/\ Len(updates') = Len(updates) + 1
     /\ updates'[Len(updates')].user_id # AUTHORIZED_USER_ID)
    => UNCHANGED <<proc_state, flag_file, running_process, switch_pc>>
C37_UnauthorizedChangesNothing == [][C37_Step]_vars
C37_Witness ==
    /\ AlreadyRunning
    /\ \E n \in 1..Len(updates) :
           updates[n].user_id # AUTHORIZED_USER_ID /\ updates[n].command = "stop"
    /\ \E n \in 1..Len(updates) :
           updates[n].user_id # AUTHORIZED_USER_ID /\ updates[n].command = "start"

=============================================================================
